---- MODULE Spec2Model ----
(***************************************************************************)
(* VendorGrid: the vendor store (one relational table with a uniqueness    *)
(* constraint on tax_id), the VendorService operations on it, and the      *)
(* requests that run them.  Every repository call is an await, so a        *)
(* request is a sequence of steps that other requests interleave with.     *)
(* Every request runs on a storage session of its own (get_db_session),    *)
(* and the application commits nowhere: vendors is the committed table of  *)
(* the database file (sqlite by default), and what a request writes stays  *)
(* in the open transaction of its session, which no other session reads.   *)
(*                                                                         *)
(* Text is a sequence of characters, each a string: the character itself, *)
(* or its code point ("U+000B") for one outside printable ASCII; None      *)
(* (Python None / SQL NULL) is a token that no text equals.                *)
(*                                                                         *)
(* Beside the store stand the IntegrationService objects with their        *)
(* outbound webhook sessions, and the application that serves both.        *)
(***************************************************************************)
EXTENDS Integers, Sequences, FiniteSets, Bags, TLC

VARIABLES vendors, now, req, last, services, sessions, posts, app, exported

\* the IntegrationService objects (services), the aiohttp.ClientSessions they
\* made (sessions), the calls of session.post (posts) and the application
\* (app: running or stopped)
hookvars == <<services, sessions, posts, app>>

\* exported: the CSV documents that export requests have answered

vars == <<vendors, now, req, last, services, sessions, posts, app, exported>>

(* ------------------------------ bounds -------------------------------- *)
\* largest id a request names
MaxId == 3
\* last tick of the storage clock
MaxTime == 1
\* The database sessions: two requests in flight at once, which is what the
\* races between a lookup and a write take.
Requests == {1, 2}

(* ------------------------------- values ------------------------------- *)
None == <<"<None>">>

Truthy(s) == s # None /\ s # <<>>

FieldNames == {"name", "tax_id", "address", "contact_email"}

T1 == <<"T", "1">>
Acme == <<"A">>
Bolt == <<"B">>
Addr == <<"S", "t">>
Mail == <<"a", "@", "b", ".", "c", "o">>
T2 == <<"T", "2">>
T07 == <<"0", "7">>

\* VendorCreate: name and tax_id are plain str (any text, the empty one
\* included), address and contact_email are optional.
CreateInputs ==
    { [name |-> Acme, tax_id |-> T1,   address |-> Addr, contact_email |-> None],
      [name |-> <<>>, tax_id |-> <<>>, address |-> None, contact_email |-> None] }

NoValues == [name |-> None, tax_id |-> None, address |-> None, contact_email |-> None]

\* VendorUpdate: every field optional; set is model_fields_set, the fields
\* the caller supplied (a supplied field may carry None).
Payload(set, val) == [set |-> set, val |-> val]

UpdateInputs ==
    { Payload({"tax_id"}, [NoValues EXCEPT !.tax_id = <<>>]),
      Payload({"tax_id"}, [NoValues EXCEPT !.tax_id = T1]),
      Payload({"name", "tax_id"}, [NoValues EXCEPT !.tax_id = T1]),
      Payload({"name", "tax_id", "contact_email"},
              [NoValues EXCEPT !.name = Bolt, !.tax_id = T1, !.contact_email = Mail]) }

NoPayload == Payload({}, NoValues)

\* the column names of the vendor CSV
ColName == <<"n", "a", "m", "e">>
ColTaxId == <<"t", "a", "x", "_", "i", "d">>
ColAddress == <<"a", "d", "d", "r", "e", "s", "s">>
ColEmail == <<"c", "o", "n", "t", "a", "c", "t", "_", "e", "m", "a", "i", "l">>

\* expected_cols, in the column order of the export
ExpectedCols == <<ColName, ColTaxId, ColAddress, ColEmail>>

\* An uploaded CSV document, as its fields: the header line and the data
\* lines (a field here is the text between the delimiters, unquoted).  The
\* document of no bytes has no header.
Doc(header, lines) == [header |-> header, lines |-> lines]
Line(n, t, a, e) == <<n, t, a, e>>

\* A cell of the parsed document (the DataFrame): the text read, NaN for an
\* empty cell, or a number (written here by the text str() makes of the
\* integer it is) or a boolean where the parser typed the column.
NaN == <<"<NaN>">>
IntCell(digits) == <<"<int>">> \o digits
FloatCell(digits) == <<"<float>">> \o digits

\* the booleans True and False
BoolCell(b) == IF b THEN <<"<bool>", "T", "r", "u", "e">>
               ELSE <<"<bool>", "F", "a", "l", "s", "e">>

Empty == <<>>

\* the upload of the concurrent requests
ImportInputs ==
    { Doc(ExpectedCols, << Line(Acme, T1, Addr, Empty), Line(Bolt, T1, Empty, Empty) >>) }

(* ------------------------------ the table ----------------------------- *)
Max(S) == CHOOSE x \in S : \A y \in S : y <= x

\* a row of the vendors table
Stored(n, t, a, e, c, u) ==
    [name |-> n, tax_id |-> t, address |-> a, contact_email |-> e,
     created_at |-> c, updated_at |-> u]

\* The committed table as the database file holds it when the application
\* starts: rows such as the INSERT and UPDATE statements of the application
\* write (tax_id unique, name and tax_id text, the empty text included, and
\* created_at <= updated_at), under the ids that sqlite gave them; an id may
\* be missing where a row was deleted.
StoredTables ==
    { <<>>,
      << Stored(Acme, T1, Addr, None, 0, 0) >>,
      << Stored(Acme, T1, Addr, None, 0, 0), Stored(<<>>, <<>>, None, None, 0, 1) >>,
      2 :> Stored(Bolt, T2, None, Mail, 0, 0) }

\* INTEGER PRIMARY KEY under the default sqlite URL: rowid = largest + 1
NextId(store) == Max(DOMAIN store \cup {0}) + 1

\* the table without its uniqueness constraint
NoUniqueConstraint(store, id, tax) == FALSE

\* UniqueConstraint('tax_id'): the row id would share tax with another row
UniqueViolation(store, id, tax) ==
    \E o \in DOMAIN store : o # id /\ store[o].tax_id = tax

\* nullable=False on name and tax_id
NotNullViolation(row) == row.name = None \/ row.tax_id = None

\* ids in ascending order
RECURSIVE Ascending(_)
Ascending(S) ==
    IF S = {} THEN <<>>
    ELSE LET m == CHOOSE x \in S : \A y \in S : x <= y
         IN  <<m>> \o Ascending(S \ {m})

GetById(store, id) == IF id \in DOMAIN store THEN id ELSE 0

GetByTaxId(store, tax) ==
    IF \E v \in DOMAIN store : store[v].tax_id = tax
    THEN CHOOSE v \in DOMAIN store : store[v].tax_id = tax
    ELSE 0

\* get_all_vendors: SELECT of the whole table, the rows as sqlite scans
\* them (by rowid)
GetAll(store) ==
    LET ids == Ascending(DOMAIN store)
    IN  [i \in 1..Len(ids) |-> store[ids[i]]]

(* ------------------------------- clock -------------------------------- *)
\* the storage clock when the application starts: no row was written after
Clock(store) == Max({store[v].updated_at : v \in DOMAIN store} \cup {0})

\* a storage clock that may be set back between two statements
TimesSetBack == 0..MaxTime

\* func.now() of a statement: the storage clock when the statement runs; it
\* has stood still or moved on since the statement before.  Only INSERT and
\* UPDATE read it.
Times == {t \in {now, now + 1} : t <= MaxTime}

(* ------------------------------ results ------------------------------- *)
\* what a service call hands back: a return value (vid = the VendorRead's id,
\* 0 for None; flag = the bool of delete_vendor) or a raised exception
Pending == [kind |-> "pending", status |-> 0, vid |-> 0, flag |-> FALSE]
Returned(vid) == [kind |-> "return", status |-> 0, vid |-> vid, flag |-> FALSE]
ReturnedBool(b) == [kind |-> "return", status |-> 0, vid |-> 0, flag |-> b]
\* HTTPException(status_code=400, detail="Vendor with tax ID '...' already exists")
DuplicateTaxId == [kind |-> "HTTPException", status |-> 400, vid |-> 0, flag |-> FALSE]
\* HTTPException(status_code=400, detail="Invalid CSV file: ...")
InvalidCsv == [kind |-> "HTTPException: invalid CSV", status |-> 400, vid |-> 0, flag |-> FALSE]
\* HTTPException(status_code=400, detail="Missing required columns: ...")
MissingColumns == [kind |-> "HTTPException: missing columns", status |-> 400, vid |-> 0, flag |-> FALSE]
\* TypeError of row_num = idx + 2 leaving import_vendors_csv
RaisedTypeError == [kind |-> "TypeError", status |-> 0, vid |-> 0, flag |-> FALSE]
\* pydantic ValidationError of ImportError(...) leaving import_vendors_csv
RaisedValidationError == [kind |-> "ValidationError", status |-> 0, vid |-> 0, flag |-> FALSE]
\* ZeroDivisionError of the total_pages division
RaisedZeroDivisionError == [kind |-> "ZeroDivisionError", status |-> 0, vid |-> 0, flag |-> FALSE]
\* sqlalchemy.exc.IntegrityError leaving the service uncaught
RaisedIntegrityError == [kind |-> "IntegrityError", status |-> 0, vid |-> 0, flag |-> FALSE]

\* sqlite3.OperationalError (database is locked) leaving the service
RaisedOperationalError ==
    [kind |-> "OperationalError", status |-> 0, vid |-> 0, flag |-> FALSE]
\* sqlalchemy.exc.InvalidRequestError (Could not refresh instance) leaving
\* the service
RaisedInvalidRequestError ==
    [kind |-> "InvalidRequestError", status |-> 0, vid |-> 0, flag |-> FALSE]

(* ------------------------------ repository ---------------------------- *)
Insert(store, id, row) ==
    [i \in DOMAIN store \cup {id} |-> IF i = id THEN row ELSE store[i]]

Remove(store, id) == [i \in DOMAIN store \ {id} |-> store[i]]

\* VendorRepository.create up to its refresh: add + flush; the flush raises
\* IntegrityError when a constraint rejects the row.  created_at, updated_at:
\* server_default now().
RepoCreate(store, data, t) ==
    LET id == NextId(store)
        row == [name |-> data.name, tax_id |-> data.tax_id,
                address |-> data.address, contact_email |-> data.contact_email,
                created_at |-> t, updated_at |-> t]
    IN  IF NotNullViolation(row) \/ UniqueViolation(store, id, row.tax_id)
        THEN [ok |-> FALSE, store |-> store, id |-> 0]
        ELSE [ok |-> TRUE, store |-> Insert(store, id, row), id |-> id]

\* VendorRepository.update up to its refresh: UPDATE ... WHERE id = :id SET
\* <the given fields>, updated_at = now() (onupdate); no row: None.
RepoUpdate(store, id, data, t) ==
    IF id \notin DOMAIN store
    THEN [ok |-> TRUE, store |-> store, id |-> 0]
    ELSE LET old == store[id]
             Pick(f) == IF f \in data.set THEN data.val[f] ELSE old[f]
             row == [name |-> Pick("name"), tax_id |-> Pick("tax_id"),
                     address |-> Pick("address"),
                     contact_email |-> Pick("contact_email"),
                     created_at |-> old.created_at, updated_at |-> t]
         IN  IF NotNullViolation(row) \/ UniqueViolation(store, id, row.tax_id)
             THEN [ok |-> FALSE, store |-> store, id |-> 0]
             ELSE [ok |-> TRUE, store |-> [store EXCEPT ![id] = row], id |-> id]

\* VendorRepository.delete: DELETE ... WHERE id = :id; rowcount > 0
RepoDelete(store, id) ==
    [store |-> IF id \in DOMAIN store THEN Remove(store, id) ELSE store,
     flag |-> id \in DOMAIN store]

(* ------------------------------ text --------------------------------- *)
\* Text is a sequence of characters, each written as the string of it.  A
\* character outside printable ASCII, and the grave accent, is written by
\* its code point: "U+000B" is the vertical tab, "U+0060" the grave accent,
\* "U+00C9" the capital E with an acute accent.

\* v where the definition covers its argument (ok); no value anywhere else
Within(ok, v) == CHOOSE x \in {v} : ok

UpperCase == <<"A", "B", "C", "D", "E", "F", "G", "H", "I", "J", "K", "L", "M",
               "N", "O", "P", "Q", "R", "S", "T", "U", "V", "W", "X", "Y", "Z">>
LowerCase == <<"a", "b", "c", "d", "e", "f", "g", "h", "i", "j", "k", "l", "m",
               "n", "o", "p", "q", "r", "s", "t", "u", "v", "w", "x", "y", "z">>

ToLowerCase ==
    [c \in {UpperCase[i] : i \in 1..Len(UpperCase)} |->
        LowerCase[CHOOSE i \in 1..Len(UpperCase) : UpperCase[i] = c]]

\* the capital letters of Latin-1 beyond ASCII, and their small letters
UpperLatin1 ==
    <<"U+00C0", "U+00C1", "U+00C2", "U+00C3", "U+00C4", "U+00C5", "U+00C6",
      "U+00C7", "U+00C8", "U+00C9", "U+00CA", "U+00CB", "U+00CC", "U+00CD",
      "U+00CE", "U+00CF", "U+00D0", "U+00D1", "U+00D2", "U+00D3", "U+00D4",
      "U+00D5", "U+00D6", "U+00D8", "U+00D9", "U+00DA", "U+00DB", "U+00DC",
      "U+00DD", "U+00DE">>
LowerLatin1 ==
    <<"U+00E0", "U+00E1", "U+00E2", "U+00E3", "U+00E4", "U+00E5", "U+00E6",
      "U+00E7", "U+00E8", "U+00E9", "U+00EA", "U+00EB", "U+00EC", "U+00ED",
      "U+00EE", "U+00EF", "U+00F0", "U+00F1", "U+00F2", "U+00F3", "U+00F4",
      "U+00F5", "U+00F6", "U+00F8", "U+00F9", "U+00FA", "U+00FB", "U+00FC",
      "U+00FD", "U+00FE">>

ToLowerLatin1 ==
    [c \in {UpperLatin1[i] : i \in 1..Len(UpperLatin1)} |->
        LowerLatin1[CHOOSE i \in 1..Len(UpperLatin1) : UpperLatin1[i] = c]]

DigitChars == <<"0", "1", "2", "3", "4", "5", "6", "7", "8", "9">>

DigitValues ==
    [c \in {DigitChars[d] : d \in 1..Len(DigitChars)} |->
        (CHOOSE d \in 1..Len(DigitChars) : DigitChars[d] = c) - 1]

Letters == DOMAIN ToLowerCase \cup {ToLowerCase[c] : c \in DOMAIN ToLowerCase}

\* the ASCII characters that are no letter and no digit
Punctuation ==
    { " ", "!", "\"", "#", "$", "%", "&", "'", "(", ")", "*", "+", ",", "-",
      ".", "/", ":", ";", "<", "=", ">", "?", "@", "[", "\\", "]", "^", "_",
      "U+0060", "{", "|", "}", "~" }
ControlChars ==
    { "U+0000", "U+0001", "U+0002", "U+0003", "U+0004", "U+0005", "U+0006",
      "U+0007", "U+0008", "\t", "\n", "U+000B", "\f", "\r", "U+000E",
      "U+000F", "U+0010", "U+0011", "U+0012", "U+0013", "U+0014", "U+0015",
      "U+0016", "U+0017", "U+0018", "U+0019", "U+001A", "U+001B", "U+001C",
      "U+001D", "U+001E", "U+001F", "U+007F" }

AsciiChars == Letters \cup DOMAIN DigitValues \cup Punctuation \cup ControlChars

\* the characters of Latin-1 beyond ASCII that str.lower() leaves alone
CaselessLatin1 ==
    { "U+0080", "U+0081", "U+0082", "U+0083", "U+0084", "U+0085", "U+0086",
      "U+0087", "U+0088", "U+0089", "U+008A", "U+008B", "U+008C", "U+008D",
      "U+008E", "U+008F", "U+0090", "U+0091", "U+0092", "U+0093", "U+0094",
      "U+0095", "U+0096", "U+0097", "U+0098", "U+0099", "U+009A", "U+009B",
      "U+009C", "U+009D", "U+009E", "U+009F", "U+00A0", "U+00A1", "U+00A2",
      "U+00A3", "U+00A4", "U+00A5", "U+00A6", "U+00A7", "U+00A8", "U+00A9",
      "U+00AA", "U+00AB", "U+00AC", "U+00AD", "U+00AE", "U+00AF", "U+00B0",
      "U+00B1", "U+00B2", "U+00B3", "U+00B4", "U+00B5", "U+00B6", "U+00B7",
      "U+00B8", "U+00B9", "U+00BA", "U+00BB", "U+00BC", "U+00BD", "U+00BE",
      "U+00BF", "U+00D7", "U+00DF", "U+00E0", "U+00E1", "U+00E2", "U+00E3",
      "U+00E4", "U+00E5", "U+00E6", "U+00E7", "U+00E8", "U+00E9", "U+00EA",
      "U+00EB", "U+00EC", "U+00ED", "U+00EE", "U+00EF", "U+00F0", "U+00F1",
      "U+00F2", "U+00F3", "U+00F4", "U+00F5", "U+00F6", "U+00F7", "U+00F8",
      "U+00F9", "U+00FA", "U+00FB", "U+00FC", "U+00FD", "U+00FE", "U+00FF" }

\* the characters that str.isspace() holds for white space
WhiteSpace ==
    { "\t", "\n", "U+000B", "\f", "\r", "U+001C", "U+001D", "U+001E",
      "U+001F", " ", "U+0085", "U+00A0", "U+1680", "U+2000", "U+2001",
      "U+2002", "U+2003", "U+2004", "U+2005", "U+2006", "U+2007", "U+2008",
      "U+2009", "U+200A", "U+2028", "U+2029", "U+202F", "U+205F", "U+3000" }

\* str.lower() of one character.  It is written out for ASCII, Latin-1 and
\* the white space; the other characters of Unicode have no value here.
LowerChar(c) ==
    IF c \in DOMAIN ToLowerCase THEN ToLowerCase[c]
    ELSE IF c \in DOMAIN ToLowerLatin1 THEN ToLowerLatin1[c]
    ELSE Within(c \in AsciiChars \cup CaselessLatin1 \cup WhiteSpace, c)

\* str.lower()
Lower(s) == [i \in 1..Len(s) |-> LowerChar(s[i])]

\* the lower-case form of an ASCII letter; any other character is itself
AsciiLowerChar(c) == IF c \in DOMAIN ToLowerCase THEN ToLowerCase[c] ELSE c

\* lower() of SQLite, which folds the ASCII letters only
SqliteLower(s) == [i \in 1..Len(s) |-> AsciiLowerChar(s[i])]

\* s without the characters of chars at its start
RECURSIVE LStripOf(_, _)
LStripOf(s, chars) ==
    IF s # <<>> /\ Head(s) \in chars THEN LStripOf(Tail(s), chars) ELSE s

\* s without the characters of chars at its end
RECURSIVE RStripOf(_, _)
RStripOf(s, chars) ==
    IF s # <<>> /\ s[Len(s)] \in chars
    THEN RStripOf(SubSeq(s, 1, Len(s) - 1), chars) ELSE s

\* str.lstrip()
LStrip(s) == LStripOf(s, WhiteSpace)

\* str.rstrip()
RStrip(s) == RStripOf(s, WhiteSpace)

\* str.strip()
Strip(s) == RStrip(LStrip(s))

IsDigits(s) == s # <<>> /\ \A i \in 1..Len(s) : s[i] \in DOMAIN DigitValues

DigitValue(c) == DigitValues[c]

\* int('07') = 7
RECURSIVE ParseInt(_)
ParseInt(s) ==
    IF s = <<>> THEN 0
    ELSE 10 * ParseInt(SubSeq(s, 1, Len(s) - 1)) + DigitValue(s[Len(s)])

\* str(7) = '7'
RECURSIVE Digits(_)
Digits(n) ==
    IF n < 10 THEN <<DigitChars[n + 1]>>
    ELSE Digits(n \div 10) \o <<DigitChars[(n % 10) + 1]>>

\* str(n) of an int
IntText(n) == IF n < 0 THEN <<"-">> \o Digits(0 - n) ELSE Digits(n)

\* int(text) of the text str(n) makes
TextInt(s) == IF Head(s) = "-" THEN 0 - ParseInt(Tail(s)) ELSE ParseInt(s)

(* ----------------------------- numbers ------------------------------- *)
\* The numbers of a CSV column are 64 bits wide, so they are computed on
\* their decimal digits.

Zeros(n) == [i \in 1..n |-> "0"]

\* digits without the zeros before them (nothing is left of zero)
DropZeros(d) == LStripOf(d, {"0"})

\* digits without the zeros after them
DropZerosAfter(d) == RStripOf(d, {"0"})

\* a < b, for digits of one length
RECURSIVE DigitsBelow(_, _)
DigitsBelow(a, b) ==
    /\ a # <<>>
    /\ \/ DigitValue(Head(a)) < DigitValue(Head(b))
       \/ Head(a) = Head(b) /\ DigitsBelow(Tail(a), Tail(b))

\* a <= b, for digits with no zero before them
NotAbove(a, b) == Len(a) < Len(b) \/ (Len(a) = Len(b) /\ ~DigitsBelow(b, a))

\* the digits of n + 1
RECURSIVE Successor(_)
Successor(d) ==
    IF d = <<>> THEN <<"1">>
    ELSE IF d[Len(d)] = "9" THEN Successor(SubSeq(d, 1, Len(d) - 1)) \o <<"0">>
    ELSE SubSeq(d, 1, Len(d) - 1) \o <<DigitChars[DigitValue(d[Len(d)]) + 2]>>

\* 2^63 - 1, the largest int64
MaxInt64 ==
    <<"9", "2", "2", "3", "3", "7", "2", "0", "3", "6", "8", "5", "4", "7", "7",
      "5", "8", "0", "7">>

\* 2^53: every integer up to it is a float64, and from it to 2^54 every
\* even one
TwoTo53 ==
    <<"9", "0", "0", "7", "1", "9", "9", "2", "5", "4", "7", "4", "0", "9", "9", "2">>

\* the white space of the number parser (isspace of the C locale)
AsciiSpace == {" ", "\t", "\n", "U+000B", "\f", "\r"}

AsciiStrip(f) == RStripOf(LStripOf(f, AsciiSpace), AsciiSpace)

Signed(s) == s # <<>> /\ Head(s) \in {"+", "-"}
Negative(s) == s # <<>> /\ Head(s) = "-"
Unsigned(s) == IF Signed(s) THEN Tail(s) ELSE s

\* a field the parser reads as an integer (str_to_int64): white space, a
\* sign, decimal digits, white space
IsInt(f) == IsDigits(Unsigned(AsciiStrip(f)))

\* the integer of such a field: its sign and its digits
IntOf(f) ==
    LET s == AsciiStrip(f)
        d == DropZeros(Unsigned(s))
    IN  [neg |-> Negative(s) /\ d # <<>>,
         digits |-> IF d = <<>> THEN <<"0">> ELSE d]

\* str(n) of such an integer
IntRepr(n) == (IF n.neg THEN <<"-">> ELSE <<>>) \o n.digits

\* the integer is an int64 (-2^63 apart)
FitsInt64(f) == NotAbove(IntOf(f).digits, MaxInt64)

\* how many digits s starts with
RECURSIVE DigitRun(_)
DigitRun(s) ==
    IF s # <<>> /\ Head(s) \in DOMAIN DigitValues THEN 1 + DigitRun(Tail(s)) ELSE 0

\* the exponent that follows the digits, rest being all that follows them
FloatExponent(neg, mantissa, decimals, rest) ==
    LET hasexp == rest # <<>> /\ Head(rest) \in {"e", "E"}
    IN  [ok |-> mantissa # <<>>
                /\ (rest = <<>> \/ (hasexp /\ IsDigits(Unsigned(Tail(rest))))),
         neg |-> neg,
         mantissa |-> mantissa,
         decimals |-> decimals,
         expneg |-> hasexp /\ Negative(Tail(rest)),
         expdigits |-> IF hasexp THEN Unsigned(Tail(rest)) ELSE <<>>]

\* the point and the digits after it, rest being all that follows the
\* digits before the point
FloatFraction(neg, whole, rest) ==
    IF rest # <<>> /\ Head(rest) = "."
    THEN FloatExponent(neg, whole \o SubSeq(rest, 2, DigitRun(Tail(rest)) + 1),
                       DigitRun(Tail(rest)),
                       SubSeq(rest, DigitRun(Tail(rest)) + 2, Len(rest)))
    ELSE FloatExponent(neg, whole, 0, rest)

\* the digits before the point, u being the field without its sign
FloatDigits(neg, u) ==
    FloatFraction(neg, SubSeq(u, 1, DigitRun(u)), SubSeq(u, DigitRun(u) + 1, Len(u)))

\* A field read as a decimal number (precise_xstrtod): white space, a sign,
\* digits with at most one point among them, an exponent (e or E, a sign,
\* digits), white space.  mantissa is the digits read, the point taken out,
\* decimals the count of those after the point.
FloatParts(f) == FloatDigits(Negative(AsciiStrip(f)), Unsigned(AsciiStrip(f)))

\* the words the parser reads as an infinity, in any case of the letters
InfWords ==
    { <<"i", "n", "f">>, <<"i", "n", "f", "i", "n", "i", "t", "y">> }

IsInf(f) == SqliteLower(Unsigned(f)) \in InfWords

\* a field the parser reads as a float64
IsFloat(f) == FloatParts(f).ok \/ IsInf(f)

\* A float64 by the shortest decimal that names it: the value is
\* 0.digits * 10^point, digits starting and ending in no zero (zero has no
\* digit); the value of the digits m times 10^e is written so
Decimal(neg, m, e) ==
    LET a == DropZeros(m)
        d == DropZerosAfter(a)
    IN  [neg |-> neg, digits |-> d, point |-> IF d = <<>> THEN 0 ELSE Len(a) + e]

\* The float64 nearest to an integer of 16 digits at most, ties going to
\* the even mantissa: itself up to 2^53; the even neighbour that is a
\* multiple of 4 for an odd one above it.
NearestFloat(a) ==
    IF Len(a) < 16 \/ NotAbove(a, TwoTo53) \/ DigitValue(a[16]) % 2 = 0 THEN a
    ELSE IF (10 * DigitValue(a[15]) + DigitValue(a[16])) % 4 = 1
    THEN SubSeq(a, 1, 15) \o <<DigitChars[DigitValue(a[16])]>>
    ELSE Successor(a)

\* the digits name a float64 that is known here: 16 digits at most, or 15
\* at most before the closing zeros
KnownInteger(a) == Len(a) <= 16 \/ Len(DropZerosAfter(a)) <= 15

\* float(n) of an int64 (the cast of an integer column, or row, to float64)
IntToFloat(n) ==
    Within(KnownInteger(n.digits),
           Decimal(n.neg,
                   IF Len(n.digits) <= 16 THEN NearestFloat(n.digits) ELSE n.digits, 0))

\* the largest power of ten that is a float64
MaxPow10 == 22

\* the longest exponent written out here
MaxExpDigits == 3

\* the power of ten the digits of p are scaled by: the exponent written out,
\* less the digits after the point
Scale(p) ==
    (IF p.expneg THEN 0 - ParseInt(DropZeros(p.expdigits))
     ELSE ParseInt(DropZeros(p.expdigits))) - p.decimals

\* the float64 of the digits of p times 10^e, a being the digits without
\* their leading zeros
ScaledFloat(p, e, a) ==
    LET short == Len(p.mantissa) <= 15 /\ e <= MaxPow10 /\ 0 - e <= MaxPow10
        whole == Len(p.mantissa) <= 17 /\ e = 0 /\ KnownInteger(a)
    IN  Within(short \/ whole,
               IF short THEN Decimal(p.neg, p.mantissa, e)
               ELSE Decimal(p.neg, IF Len(a) <= 16 THEN NearestFloat(a) ELSE a, 0))

\* the float64 of a number taken apart as by FloatParts
PartsToFloat(p) ==
    Within(Len(DropZeros(p.expdigits)) <= MaxExpDigits,
           ScaledFloat(p, Scale(p), DropZeros(p.mantissa)))

\* The float64 the parser reads from a decimal field.  It takes the digits
\* up one by one and scales by a power of ten: 15 digits and a power up to
\* 10^22 are exact numbers, so the result is the float nearest the field;
\* 17 digits with nothing to scale by are an integer summed up with at most
\* one rounding.  A longer field has no value here.
FieldToFloat(f) == PartsToFloat(FloatParts(f))

\* the exponent of repr: a sign and two digits at least
ExpText(k) ==
    (IF k < 0 THEN <<"-">> ELSE <<"+">>)
        \o (IF k < 10 /\ k > -10 THEN <<"0">> ELSE <<>>)
        \o Digits(IF k < 0 THEN 0 - k ELSE k)

\* repr(x), which is str(x), of a float64: the shortest digits, with an
\* exponent when the point lies beyond 16 digits or more than 4 places before them
Repr(x) ==
    LET d == x.digits
        k == x.point
    IN  (IF x.neg THEN <<"-">> ELSE <<>>) \o
        (IF d = <<>> THEN <<"0", ".", "0">>
         ELSE IF k > 16 \/ k < -3
         THEN <<Head(d)>> \o (IF Len(d) > 1 THEN <<".">> \o Tail(d) ELSE <<>>)
                  \o <<"e">> \o ExpText(k - 1)
         ELSE IF k <= 0 THEN <<"0", ".">> \o Zeros(0 - k) \o d
         ELSE IF k >= Len(d) THEN d \o Zeros(k - Len(d)) \o <<".", "0">>
         ELSE SubSeq(d, 1, k) \o <<".">> \o SubSeq(d, k + 1, Len(d)))

\* str(x) of the float64 read from a field of a float column
FloatText(f) ==
    IF IsInf(f) THEN (IF Negative(f) THEN <<"-">> ELSE <<>>) \o <<"i", "n", "f">>
    ELSE Repr(FieldToFloat(f))

(* ------------------------------ CSV ---------------------------------- *)
\* the default NA markers of pd.read_csv
NaTexts ==
    { <<>>, <<"#", "N", "/", "A">>, <<"#", "N", "/", "A", " ", "N", "/", "A">>,
      <<"#", "N", "A">>, <<"-", "1", ".", "#", "I", "N", "D">>,
      <<"-", "1", ".", "#", "Q", "N", "A", "N">>, <<"-", "N", "a", "N">>,
      <<"-", "n", "a", "n">>, <<"1", ".", "#", "I", "N", "D">>,
      <<"1", ".", "#", "Q", "N", "A", "N">>, <<"<", "N", "A", ">">>,
      <<"N", "/", "A">>, <<"N", "A">>, <<"N", "U", "L", "L">>, <<"N", "a", "N">>,
      <<"N", "o", "n", "e">>, <<"n", "/", "a">>, <<"n", "a", "n">>,
      <<"n", "u", "l", "l">> }

\* the capital of an ASCII small letter
AsciiUpperChar(c) ==
    IF \E u \in DOMAIN ToLowerCase : ToLowerCase[u] = c
    THEN CHOOSE u \in DOMAIN ToLowerCase : ToLowerCase[u] = c ELSE c

\* a word of small letters in every case of its letters
RECURSIVE CaseSpellings(_)
CaseSpellings(w) ==
    IF w = <<>> THEN {<<>>}
    ELSE {<<c>> \o r : c \in {Head(w), AsciiUpperChar(Head(w))},
                        r \in CaseSpellings(Tail(w))}

\* the texts the parser reads as the booleans True and False: the words in
\* any case of their letters
TrueTexts == CaseSpellings(<<"t", "r", "u", "e">>)
FalseTexts == CaseSpellings(<<"f", "a", "l", "s", "e">>)

\* skip_blank_lines: a line of no characters, or of blanks and tabs only,
\* is no line of the table
BlankLine(line) ==
    \/ line = <<>>
    \/ Len(line) = 1 /\ \A k \in 1..Len(line[1]) : line[1][k] \in {" ", "\t"}

\* the lines of the table: the first of them is the header
Records(doc) == SelectSeq(<<doc.header>> \o doc.lines, LAMBDA line : ~BlankLine(line))

\* the header the parser reads (none in a document with no line to read)
Header(doc) == IF Records(doc) = <<>> THEN <<>> ELSE Head(Records(doc))

\* the data lines the parser reads
DataLines(doc) == IF Records(doc) = <<>> THEN <<>> ELSE Tail(Records(doc))

\* The parser takes its field count from the first data line: the fields it
\* has beyond the header's are leading columns, which become the index of
\* the DataFrame (a line ending in a delimiter has one).
LeadingCols(doc) ==
    IF DataLines(doc) # <<>> /\ Len(DataLines(doc)[1]) > Len(Header(doc))
    THEN Len(DataLines(doc)[1]) - Len(Header(doc))
    ELSE 0

\* pd.read_csv raises: no line to read (EmptyDataError), or a data line with
\* more fields than the first one and the header (ParserError)
ParseFails(doc) ==
    \/ Records(doc) = <<>>
    \/ \E i \in 1..Len(DataLines(doc)) :
          Len(DataLines(doc)[i]) > Len(Header(doc)) + LeadingCols(doc)

\* the field of data line i under column j; a short line is padded
FieldAt(doc, i, j) ==
    IF j <= Len(DataLines(doc)[i]) THEN DataLines(doc)[i][j] ELSE <<>>

\* What the parser makes of column j of the file.  It tries the types in
\* turn: "int" (int64) when every field is an integer, "float" (float64)
\* when some of those are NA or every field is a decimal number or an
\* infinity, "bool" when every field is a boolean, "boolna" (object, holding
\* booleans and NaN) when the rest of them are NA, "object" (text and NaN)
\* otherwise, and for a table of no data line.  An integer beyond int64 has
\* no type here.
ColumnType(doc, j) ==
    LET fields == {FieldAt(doc, i, j) : i \in 1..Len(DataLines(doc))}
        given == fields \ NaTexts
    IN  IF fields = {} THEN "object"
        ELSE IF \A f \in given : IsInt(f)
        THEN Within(\A f \in given : FitsInt64(f),
                    IF fields = given THEN "int" ELSE "float")
        ELSE IF \A f \in given : IsFloat(f) THEN "float"
        ELSE IF given \subseteq TrueTexts \cup FalseTexts
        THEN IF fields = given THEN "bool" ELSE "boolna"
        ELSE "object"

\* the column is read as int64 and cast to float64 for its NA fields
Upcast(doc, j) ==
    \A i \in 1..Len(DataLines(doc)) :
        FieldAt(doc, i, j) \in NaTexts \/ IsInt(FieldAt(doc, i, j))

\* the cell the parser makes of a field
Cell(type, field) ==
    IF field \in NaTexts THEN NaN
    ELSE IF type = "int" THEN IntCell(IntRepr(IntOf(field)))
    ELSE IF type = "float" THEN FloatCell(FloatText(field))
    ELSE IF type \in {"bool", "boolna"} THEN BoolCell(field \in TrueTexts)
    ELSE field

\* the index label of several leading columns (a tuple)
TupleLabel == <<"<tuple>">>

\* the text of a field is text the parser is handed: it holds no NUL
Readable(doc) ==
    \A i \in 1..Len(Records(doc)) : \A j \in 1..Len(Records(doc)[i]) :
        \A k \in 1..Len(Records(doc)[i][j]) : Records(doc)[i][j][k] # "U+0000"

\* the cell of line i in column j of the file, types being the types of
\* its columns: an integer of a column that was cast to float64 is cast
\* too, any other field is parsed as its column is
CellAt(doc, types, i, j) ==
    IF types[j] = "float" /\ Upcast(doc, j) /\ FieldAt(doc, i, j) \notin NaTexts
    THEN FloatCell(Repr(IntToFloat(IntOf(FieldAt(doc, i, j)))))
    ELSE Cell(types[j], FieldAt(doc, i, j))

\* the table of a file with lead leading columns and columns of these types
Frame(doc, lead, types) ==
    [columns |-> Header(doc),
     dtypes |-> [j \in 1..Len(Header(doc)) |-> types[j + lead]],
     rows |-> [i \in 1..Len(DataLines(doc)) |->
                 [j \in 1..Len(Header(doc)) |-> CellAt(doc, types, i, j + lead)]],
     index |-> [i \in 1..Len(DataLines(doc)) |->
                  IF lead = 0 THEN IntCell(Digits(i - 1))
                  ELSE IF lead = 1 THEN CellAt(doc, types, i, 1)
                  ELSE TupleLabel]]

\* df = pd.read_csv(...): the column names as the header spells them, their
\* dtypes, the rows of cells, and the index label of every row: its position
\* from 0 (RangeIndex) when the file has no leading column, else the cell of
\* the leading column
ReadCsv(doc) ==
    Within(Readable(doc),
           Frame(doc, LeadingCols(doc),
                 [j \in 1..(Len(Header(doc)) + LeadingCols(doc)) |-> ColumnType(doc, j)]))

\* the integer that an int64 cell holds, as IntOf gives it
CellInt(c) == IntOf(Tail(c))

\* The row that df.iterrows() hands out for position i: one Series, so the
\* cells have the common dtype of the columns.  Columns that are all int64
\* or float64, one of them float64, make a float64 row: its integers are
\* cast to floats.  Any other mix is an object row, whose cells are as they
\* were.
Row(df, i) ==
    LET types == {df.dtypes[j] : j \in 1..Len(df.dtypes)}
        cell(c) == IF types \subseteq {"int", "float"} /\ "float" \in types
                      /\ c # NaN /\ Head(c) = "<int>"
                   THEN FloatCell(Repr(IntToFloat(CellInt(c)))) ELSE c
    IN  [j \in 1..Len(df.rows[i]) |-> cell(df.rows[i][j])]

\* the rows of df.iterrows()
IterRows(df) == [i \in 1..Len(df.rows) |-> Row(df, i)]

IsNumber(cell) == cell # <<>> /\ Head(cell) \in {"<int>", "<float>", "<bool>"}

\* idx + 2 raises TypeError: the index label is text or a tuple
RowNumRaises(label) == label # NaN /\ ~IsNumber(label)

\* the decimal number that the digits and the exponent of p write
WrittenDecimal(p) == Decimal(p.neg, p.mantissa, Scale(p))

\* the float64 of a float label, by the decimal its repr writes
LabelFloat(label) == WrittenDecimal(FloatParts(Tail(label)))

\* the float64 x is a whole number
Whole(x) == Len(x.digits) <= x.point

\* the digits of a whole number x, its sign left out
WholeDigits(x) == x.digits \o Zeros(x.point - Len(x.digits))

\* 0.a <= 0.b, for digits a and b after the point
FractionNotAbove(a, b) ==
    ~DigitsBelow(b \o Zeros(Len(a) - Len(b)), a \o Zeros(Len(b) - Len(a)))

\* the digits of 2^-52 and of 2^-53, which are 0.digits * 10^-15: half the
\* gap between 2.0 and the float64 next above it, and next below it
HalfGapAbove ==
    <<"2", "2", "2", "0", "4", "4", "6", "0", "4", "9", "2", "5", "0", "3", "1", "3">>
HalfGapBelow ==
    <<"1", "1", "1", "0", "2", "2", "3", "0", "2", "4", "6", "2", "5", "1", "5", "6", "5">>

\* x + 2 is 2.0: x lies within half the gap from 2.0, the tie going to 2.0
RoundsToTwo(x) ==
    \/ x.point < -15
    \/ x.point = -15
          /\ FractionNotAbove(x.digits, IF x.neg THEN HalfGapBelow ELSE HalfGapAbove)

\* |x| < 0.5
BelowHalf(x) == x.point < 0 \/ (x.point = 0 /\ DigitValue(Head(x.digits)) < 5)

\* The float64 x + 2 is a whole number: for a whole x; for an x below 0.5
\* when the sum is 2.0; and never for an x of 15 digits at most with none
\* beyond the 15th place after the point, whose fraction the sum keeps.
\* Another x has no value here.
SumIsWhole(x) ==
    IF Whole(x) THEN TRUE
    ELSE IF BelowHalf(x) THEN RoundsToTwo(x)
    ELSE Within(Len(x.digits) <= 15 /\ Len(x.digits) - x.point <= 15, FALSE)

\* 2^63 as the repr of the float64 writes it
TwoTo63 ==
    <<"9", "2", "2", "3", "3", "7", "2", "0", "3", "6", "8", "5", "4", "7", "7",
      "6", "0", "0", "0">>

\* The whole float64 x + 2 is beyond int64: x is 2^63 or more, or below
\* -2^63 (the sum is x itself there); -2^63 has no value here.
BeyondInt64(x) ==
    Within(~(x.neg /\ WholeDigits(x) = TwoTo63), ~NotAbove(WholeDigits(x), MaxInt64))

\* row_number=row_num is refused for the float64 row_num = x + 2: it has a
\* fraction or is beyond int64
SumRefused(x) == IF Whole(x) THEN BeyondInt64(x) ELSE ~SumIsWhole(x)

\* row_number=row_num is refused by ImportError (ValidationError): row_num
\* is NaN, an infinity, a number with a fraction or one beyond int64
RowNumRefused(label) ==
    \/ label = NaN
    \/ label # <<>> /\ Head(label) = "<float>"
          /\ (IsInf(Tail(label)) \/ SumRefused(LabelFloat(label)))

\* the longest row number written out here
MaxRowDigits == 9

\* int(x + 2) of a float64 x that is not refused: 2 for an x that is no
\* whole number
SumInt(x) ==
    IF ~Whole(x) THEN 2
    ELSE Within(Len(WholeDigits(x)) <= MaxRowDigits,
                (IF x.neg THEN 0 - ParseInt(WholeDigits(x))
                 ELSE ParseInt(WholeDigits(x))) + 2)

\* row_num = idx + 2 for a label that is a number (True is 1, False is 0),
\* as the int that ImportError makes of it
RowNum(label) ==
    IF Head(label) = "<bool>" THEN (IF label = BoolCell(TRUE) THEN 1 ELSE 0) + 2
    ELSE IF Head(label) = "<float>" THEN SumInt(LabelFloat(label))
    ELSE Within(Len(Tail(label)) <= MaxRowDigits, TextInt(Tail(label)) + 2)

\* import_vendors_csv without its check of the columns
NoMissingCols(doc) == {}

\* missing_cols = expected_cols - set(df.columns.str.lower())
MissingCols(doc) ==
    {ExpectedCols[k] : k \in 1..Len(ExpectedCols)}
        \ {Lower(Header(doc)[j]) : j \in 1..Len(Header(doc))}

\* a text that to_csv writes as a field the parser reads back as it is (in
\* quotes where it must): it holds no carriage return and no NUL
Writable(v) == \A k \in 1..Len(v) : v[k] \notin {"\r", "U+0000"}

\* df.to_csv(index=False) of the list of vendors: None is written as an
\* empty field
ToField(v) == IF v = None THEN <<>> ELSE Within(Writable(v), v)

\* VendorService.export_vendors_csv
ExportVendorsCsv(vlist) ==
    Doc(ExpectedCols,
        [i \in 1..Len(vlist) |->
            Line(ToField(vlist[i].name), ToField(vlist[i].tax_id),
                 ToField(vlist[i].address), ToField(vlist[i].contact_email))])

\* str(cell): the text itself, 'nan' for NaN, '7' for 7, '7.0' for 7.0,
\* '1e+16' for 1e16 and 'True' for True
Str(cell) ==
    IF cell = NaN THEN <<"n", "a", "n">>
    ELSE IF IsNumber(cell) THEN Tail(cell)
    ELSE cell

\* pd.notna(cell)
NotNa(cell) == cell # NaN

\* the position of the first column spelled key, 0 when there is none (the
\* parser renames a later column of the same spelling)
ColumnOf(columns, key) ==
    IF \E j \in 1..Len(columns) : columns[j] = key
    THEN CHOOSE j \in 1..Len(columns) :
            columns[j] = key /\ \A k \in 1..(j - 1) : columns[k] # key
    ELSE 0

\* row.get(key, ''): the column names are looked up as the header spells them
RowGet(columns, row, key) ==
    IF ColumnOf(columns, key) # 0 THEN row[ColumnOf(columns, key)] ELSE <<>>

\* pd.notna(row.get(key)): row.get gives None, which is NA, for no column
RowHas(columns, row, key) ==
    ColumnOf(columns, key) # 0 /\ NotNa(row[ColumnOf(columns, key)])

(* ----------------------------- EmailStr ------------------------------ *)
\* the characters of the local part of an address, the dot apart; they are
\* the characters of a display name outside quotes too
LocalChars ==
    Letters \cup DOMAIN DigitValues
        \cup {"!", "#", "$", "%", "&", "'", "*", "+", "-", "/", "=", "?", "^",
              "_", "U+0060", "{", "|", "}", "~"}

\* the characters of a domain label
LabelChars == Letters \cup DOMAIN DigitValues \cup {"-"}

\* dot-separated atoms: no dot at either end and no two dots in a row
DotAtoms(s, chars) ==
    /\ s # <<>> /\ s[1] # "." /\ s[Len(s)] # "."
    /\ \A k \in 1..Len(s) : s[k] \in chars \cup {"."}
    /\ \A k \in 1..(Len(s) - 1) : ~(s[k] = "." /\ s[k + 1] = ".")

\* the top-level names that are reserved for special use
SpecialUse ==
    { <<"a", "r", "p", "a">>, <<"i", "n", "v", "a", "l", "i", "d">>,
      <<"l", "o", "c", "a", "l">>, <<"l", "o", "c", "a", "l", "h", "o", "s", "t">>,
      <<"o", "n", "i", "o", "n">>, <<"t", "e", "s", "t">> }

\* the mailbox names that are written in lower case whatever their case
MailboxNames ==
    { <<"i", "n", "f", "o">>, <<"m", "a", "r", "k", "e", "t", "i", "n", "g">>,
      <<"s", "a", "l", "e", "s">>, <<"s", "u", "p", "p", "o", "r", "t">>,
      <<"a", "b", "u", "s", "e">>, <<"n", "o", "c">>,
      <<"s", "e", "c", "u", "r", "i", "t", "y">>,
      <<"p", "o", "s", "t", "m", "a", "s", "t", "e", "r">>,
      <<"h", "o", "s", "t", "m", "a", "s", "t", "e", "r">>,
      <<"u", "s", "e", "n", "e", "t">>, <<"n", "e", "w", "s">>,
      <<"w", "e", "b", "m", "a", "s", "t", "e", "r">>, <<"w", "w", "w">>,
      <<"u", "u", "c", "p">>, <<"f", "t", "p">> }

\* the last label of a domain
RECURSIVE LastLabel(_)
LastLabel(d) ==
    IF \E k \in 1..Len(d) : d[k] = "."
    THEN LastLabel(SubSeq(d, (CHOOSE k \in 1..Len(d) : d[k] = ".") + 1, Len(d)))
    ELSE d

\* where the labels of a domain start
LabelStarts(d) == {k \in 1..Len(d) : k = 1 \/ d[k - 1] = "."}

\* the limits of an address, of its local part and of a label
MaxEmailLength == 254
MaxLocalLength == 64
MaxLabelLength == 63

\* a label with hyphens in its third and fourth place, the prefix xn apart
ReservedLabel(d) ==
    \E k \in LabelStarts(d) :
        /\ k + 3 <= Len(d)
        /\ d[k + 2] = "-" /\ d[k + 3] = "-"
        /\ SqliteLower(SubSeq(d, k, k + 1)) # <<"x", "n">>

\* a label that is the encoding of a name beyond ASCII
EncodedLabel(d) ==
    \E k \in LabelStarts(d) :
        k + 3 <= Len(d) /\ SqliteLower(SubSeq(d, k, k + 3)) = <<"x", "n", "-", "-">>

\* email_validator.validate_email(s, check_deliverability=False) accepts s:
\* a local part of dot-separated atoms, one @, and a domain of at least two
\* labels of letters, digits and hyphens, no label with a hyphen at an end
\* or in both its third and fourth place, none longer than 63, the last one
\* ending in a letter and not reserved, 254 characters at most in all.  A
\* local part beyond 64 characters, which one release of email_validator
\* accepts and another refuses, and an encoded label have no value here.
EmailValid(s) ==
    \E i \in 2..(Len(s) - 1) :
        LET local == SubSeq(s, 1, i - 1)
            domain == SubSeq(s, i + 1, Len(s))
        IN  /\ s[i] = "@"
            /\ DotAtoms(local, LocalChars)
            /\ DotAtoms(domain, LabelChars)
            /\ \E k \in 1..Len(domain) : domain[k] = "."
            /\ domain[1] # "-" /\ domain[Len(domain)] # "-"
            /\ \A k \in 1..(Len(domain) - 1) :
                  ~(domain[k] = "-" /\ domain[k + 1] = ".")
                  /\ ~(domain[k] = "." /\ domain[k + 1] = "-")
            /\ \A k \in LabelStarts(domain) :
                  k + MaxLabelLength <= Len(domain)
                      => \E m \in k..(k + MaxLabelLength) : domain[m] = "."
            /\ ~ReservedLabel(domain)
            /\ domain[Len(domain)] \in Letters
            /\ Lower(LastLabel(domain)) \notin SpecialUse
            /\ Len(s) <= MaxEmailLength
            /\ Within(Len(local) <= MaxLocalLength /\ ~EncodedLabel(domain), TRUE)

\* the longest text that pydantic looks at as an address
MaxPrettyLength == 2048

\* The address that pydantic's pretty_email_regex takes out of s: the text
\* between an angle bracket and the closing one that ends s, after a
\* display name (words of the characters of a local part, or any text in
\* double quotes) or none; s itself when it is not of this form.
PrettyEmail(s) ==
    LET t == RStrip(s)
        j == Len(t)
        inner(i) == SubSeq(t, i + 1, j - 1)
        before(i) == Strip(SubSeq(t, 1, i - 1))
        opens == {i \in 1..(j - 2) :
                     t[i] = "<" /\ \A k \in (i + 1)..(j - 1) : t[k] # "\n"}
        words(i) == /\ before(i) # <<>>
                    /\ \A k \in 1..Len(before(i)) :
                          before(i)[k] \in LocalChars \cup WhiteSpace
        quoted(i) == /\ Len(before(i)) >= 3
                     /\ Head(before(i)) = "\"" /\ before(i)[Len(before(i))] = "\""
        bare(i) == before(i) = <<>>
    IN  IF j = 0 \/ t[j] # ">" THEN s
        ELSE IF \E i \in opens : words(i) THEN inner(CHOOSE i \in opens : words(i))
        ELSE IF \E i \in opens : quoted(i)
        THEN inner(Max({i \in opens : quoted(i)}))
        ELSE IF \E i \in opens : bare(i) THEN inner(CHOOSE i \in opens : bare(i))
        ELSE s

\* the text that is handed to email_validator
EmailText(s) == Strip(PrettyEmail(s))

\* the characters an address is looked at for here
EmailChars == AsciiChars \cup WhiteSpace

\* EmailStr accepts s
EmailAccepted(s) ==
    Within(\A k \in 1..Len(s) : s[k] \in EmailChars,
           Len(s) <= MaxPrettyLength /\ EmailValid(EmailText(s)))

\* the address of a local part and a domain as validate_email returns it
Address(local, domain) ==
    (IF Lower(local) \in MailboxNames THEN Lower(local) ELSE local)
        \o <<"@">> \o Lower(domain)

\* an accepted address t as validate_email returns it
Normalized(t) ==
    LET i == CHOOSE k \in 1..Len(t) : t[k] = "@"
    IN  Address(SubSeq(t, 1, i - 1), SubSeq(t, i + 1, Len(t)))

\* EmailStr: the address as validate_email returns it: taken out of its
\* angle brackets, white space taken off both ends, the domain in lower
\* case and a mailbox name of the list too; text that is no address is
\* refused (here: handed back as email_validator was handed it)
EmailStr(s) ==
    IF EmailAccepted(s) THEN Normalized(EmailText(s)) ELSE EmailText(s)

\* the VendorCreate built from a data row
RowData(columns, row) ==
    [name |-> Strip(Str(RowGet(columns, row, ColName))),
     tax_id |-> Strip(Str(RowGet(columns, row, ColTaxId))),
     address |-> IF RowHas(columns, row, ColAddress)
                 THEN Str(RowGet(columns, row, ColAddress)) ELSE None,
     contact_email |-> IF RowHas(columns, row, ColEmail)
                       THEN EmailStr(Str(RowGet(columns, row, ColEmail)))
                       ELSE None]

\* if not vendor_data.name / elif not vendor_data.tax_id: the field that
\* is blank, "" when none is
BlankField(d) ==
    IF d.name = <<>> THEN "name"
    ELSE IF d.tax_id = <<>> THEN "tax_id"
    ELSE ""

\* What stops a row before any lookup, "" when nothing does: "general" when
\* VendorCreate(...) raises (its contact_email is no e-mail address), then the
\* basic validation of name and tax_id.
RowBlank(columns, row) ==
    IF RowHas(columns, row, ColEmail)
       /\ ~EmailAccepted(Str(RowGet(columns, row, ColEmail)))
    THEN "general"
    ELSE BlankField(RowData(columns, row))

(* ------------------------------ requests ------------------------------ *)
\* One request = one call of a VendorService method on the storage session
\* that get_db_session made for it.  pc is the await it is suspended at;
\* view is the table as the session reads it: the committed table with what
\* the session's own open transaction has written; lock says that this
\* transaction has written, so that it holds the write lock of the database
\* file.  existing_tax is existing_vendor.tax_id of update_vendor (None
\* before the lookup and when it found no vendor).  writes counts the storage
\* write statements the call has issued; clean says none of them met the
\* write lock of another session; params, raw_page and raw_page_size are
\* the arguments of a search as the caller gave them, page and page_size the
\* local variables of these names, total, items (the ids of the VendorReads)
\* and total_pages what it found; since is the since_timestamp of
\* get_vendor_changes_since and changes the VendorChanges it answered;
\* service, event_type, event_id and session are the IntegrationService, the
\* event, its uuid and the ClientSession of a send_webhook_notification or a
\* close, response what the post came to; health is the
\* IntegrationHealthCheck of a get_health_status (has_total and has_last say
\* that total_vendors and last_updated are not None); doc is the upload of
\* an import.  broken says a flush of the call's session failed: the session
\* rolled its transaction back and, as nothing calls rollback(), every later
\* statement of the call raises PendingRollbackError.
Idle ==
    [op |-> "none", pc |-> "idle", vid |-> 0, data |-> NoValues,
     upd |-> NoPayload, existing_tax |-> None, writes |-> 0, clean |-> TRUE,
     view |-> <<>>, lock |-> FALSE,
     doc |-> Doc(<<>>, <<>>), columns |-> <<>>, rows |-> <<>>, index |-> <<>>,
     idx |-> 0, success_count |-> 0, errors |-> <<>>, broken |-> FALSE,
     params |-> NoValues, raw_page |-> 0, raw_page_size |-> 0,
     page |-> 0, page_size |-> 0,
     total |-> 0, items |-> <<>>, total_pages |-> 0,
     since |-> [at |-> 0, aware |-> FALSE], changes |-> <<>>,
     service |-> 0, event_type |-> "", event_id |-> 0, session |-> 0,
     response |-> [kind |-> "none", status |-> 0],
     health |-> [status |-> "", has_total |-> FALSE, total_vendors |-> 0,
                 has_last |-> FALSE, last_updated |-> 0],
     result |-> Pending]

\* get_db_session: return async_session_maker().  Every request gets a
\* session of its own, which reads the committed table; nothing in the
\* application commits or closes a session.
GetDbSession(call) == [call EXCEPT !.view = vendors]

\* req is the bag of the sessions alive: the calls in flight and the
\* sessions of ended calls that still hold a transaction (pc "ended"); which
\* session runs which call makes no difference to any of them.  A new
\* request needs a session.
Free == BagCardinality(req) < Cardinality(Requests)

\* the sessions alive
InFlight == BagToSet(req)

\* no session is alive
Quiet == req = EmptyBag

\* no call is in flight: a request that starts now comes after every call
\* before it has returned, whether the session of that call is dropped by
\* then or not
InTurn == \A q \in InFlight : q.pc = "ended"

\* the other sessions alive, seen from the call q
Others(q) == req (-) SetToBag({q})

\* A session of the bag rq has written in its open transaction: it holds
\* the write lock of the database file, and a write statement of any other
\* session raises OperationalError (database is locked).
WriteLocked(rq) == \E o \in BagToSet(rq) : o.lock

\* The call returns or raises.  last is the call that the step just taken
\* ended, with what its caller saw (Idle when the step ended no call).
Ended(q, res) == [q EXCEPT !.pc = "done", !.result = res]

\* the session of an ended call, which nothing closes: while it is not
\* dropped, its transaction stays open
Lingering(q, res) == [q EXCEPT !.pc = "ended", !.result = res]

Finish(rq, me, res) ==
    /\ req' = IF me.lock THEN rq (+) SetToBag({Lingering(me, res)}) ELSE rq
    /\ last' = Ended(me, res)
    /\ UNCHANGED hookvars

\* The call me goes on to its next await, beside the sessions rq.
Continue(rq, me) ==
    /\ req' = rq (+) SetToBag({me})
    /\ last' = Idle
    /\ UNCHANGED hookvars

\* The session of a call that has ended is dropped (nothing refers to it any
\* more): its connection is closed and its transaction rolled back.
Discard(q) ==
    /\ q \in InFlight /\ q.pc = "ended"
    /\ req' = Others(q)
    /\ last' = Idle
    /\ UNCHANGED <<vendors, exported, now>>
    /\ UNCHANGED hookvars

\* a statement of the call q met the write lock of another session
Locked(q) == [q EXCEPT !.writes = @ + 1, !.clean = FALSE]

\* session.refresh(vendor): the SELECT of the row by its primary key finds it
Refresh(store, id) == GetById(store, id) # 0

(* --------------------------- create_vendor ---------------------------- *)
\* create_vendor without its pre-check
NoCreatePrecheck(store, tax) == FALSE

\* the pre-check: existing_vendor = await get_by_tax_id(...); if existing_vendor
CreatePrecheck(store, tax) == GetByTaxId(store, tax) # 0

\* except IntegrityError: raise HTTPException(400, same detail)
OnCreateIntegrityError == DuplicateTaxId

\* a create_vendor call, up to its await of repository.create
Create(d) ==
    /\ Free
    /\ LET me == GetDbSession([Idle EXCEPT !.op = "create", !.data = d])
       IN  IF CreatePrecheck(me.view, d.tax_id)
           THEN Finish(req, me, DuplicateTaxId)
           ELSE Continue(req, [me EXCEPT !.pc = "c_write"])
    /\ UNCHANGED <<vendors, exported, now>>

\* repository.create up to its second await: self._session.add(vendor);
\* await self._session.flush().  The INSERT is sent inside the session's
\* transaction.  OperationalError is no IntegrityError: it leaves
\* create_vendor as it is.
CreateWrite(q, t) ==
    /\ q \in InFlight /\ q.pc = "c_write"
    /\ IF WriteLocked(Others(q))
       THEN Finish(Others(q), Locked(q), RaisedOperationalError)
       ELSE LET out == RepoCreate(q.view, q.data, t)
                me == [q EXCEPT !.writes = @ + 1]
            IN  IF out.ok
                THEN Continue(Others(q), [me EXCEPT !.view = out.store, !.lock = TRUE,
                                                    !.vid = out.id, !.pc = "c_refresh"])
                ELSE Finish(Others(q), me, OnCreateIntegrityError)
    /\ now' = t
    /\ UNCHANGED <<vendors, exported>>

\* await self._session.refresh(vendor); return vendor;
\* VendorRead.model_validate(created_vendor).  A row that is gone raises
\* InvalidRequestError, which is no IntegrityError.
CreateRefresh(q) ==
    /\ q \in InFlight /\ q.pc = "c_refresh"
    /\ IF Refresh(q.view, q.vid)
       THEN Finish(Others(q), q, Returned(q.vid))
       ELSE Finish(Others(q), q, RaisedInvalidRequestError)
    /\ UNCHANGED <<vendors, exported, now>>

(* --------------------------- update_vendor ---------------------------- *)
\* if vendor_data.tax_id and vendor_data.tax_id != existing_vendor.tax_id
NeedsTaxCheck(p, existing_tax) ==
    Truthy(p.val.tax_id) /\ p.val.tax_id # existing_tax

\* if conflict_vendor and conflict_vendor.id != vendor_id
ConflictFound(store, id, tax) ==
    GetByTaxId(store, tax) # 0 /\ GetByTaxId(store, tax) # id

\* model_dump() without exclude_unset: every field, the unset ones as None
UpdateDataAllFields(p) == Payload(FieldNames, p.val)

\* update_data = vendor_data.model_dump(exclude_unset=True)
UpdateData(p) == p

\* update_vendor has no except clause: the IntegrityError of the UPDATE
\* leaves the service as it is
OnUpdateIntegrityError == RaisedIntegrityError

\* update_vendor looking for a tax_id conflict before it looks for the vendor
UpdateConflictFirst(id, p) ==
    /\ Free
    /\ LET me == GetDbSession([Idle EXCEPT !.op = "update", !.vid = id, !.upd = p])
       IN  IF Truthy(p.val.tax_id) /\ ConflictFound(me.view, id, p.val.tax_id)
           THEN Finish(req, me, DuplicateTaxId)
           ELSE IF GetById(me.view, id) = 0
           THEN Finish(req, me, Returned(0))
           ELSE Continue(req, [me EXCEPT
                               !.existing_tax = me.view[id].tax_id,
                               !.pc = IF NeedsTaxCheck(p, me.view[id].tax_id)
                                      THEN "u_check" ELSE "u_write"])
    /\ UNCHANGED <<vendors, exported, now>>

\* update_vendor whose conflict check counts the vendor's own row
UpdateCountsOwnRow(id, p) ==
    /\ Free
    /\ LET me == GetDbSession([Idle EXCEPT !.op = "update", !.vid = id, !.upd = p])
       IN  IF GetById(me.view, id) = 0
           THEN Finish(req, me, Returned(0))
           ELSE IF Truthy(p.val.tax_id) /\ GetByTaxId(me.view, p.val.tax_id) # 0
           THEN Finish(req, [me EXCEPT !.existing_tax = me.view[id].tax_id],
                       DuplicateTaxId)
           ELSE Continue(req, [me EXCEPT !.existing_tax = me.view[id].tax_id,
                                       !.pc = "u_write"])
    /\ UNCHANGED <<vendors, exported, now>>

\* an update_vendor call, up to its next await:
\* existing_vendor = await get_by_id(vendor_id); if not existing_vendor: return None
Update(id, p) ==
    /\ Free
    /\ LET me == GetDbSession([Idle EXCEPT !.op = "update", !.vid = id, !.upd = p])
       IN  IF GetById(me.view, id) = 0
           THEN Finish(req, me, Returned(0))
           ELSE Continue(req, [me EXCEPT
                               !.existing_tax = me.view[id].tax_id,
                               !.pc = IF NeedsTaxCheck(p, me.view[id].tax_id)
                                      THEN "u_check" ELSE "u_write"])
    /\ UNCHANGED <<vendors, exported, now>>

\* conflict_vendor = await get_by_tax_id(vendor_data.tax_id)
UpdateCheck(q) ==
    /\ q \in InFlight /\ q.pc = "u_check"
    /\ IF ConflictFound(q.view, q.vid, q.upd.val.tax_id)
       THEN Finish(Others(q), q, DuplicateTaxId)
       ELSE Continue(Others(q), [q EXCEPT !.pc = "u_write"])
    /\ UNCHANGED <<vendors, exported, now>>

\* repository.update up to its second await: result = await
\* self._session.execute(update(Vendor)...returning(Vendor)); updated_vendor
\* = result.scalar_one_or_none().  The statement opens the session's write
\* transaction whether it is rejected or not; no row: return None.
UpdateWrite(q, t) ==
    /\ q \in InFlight /\ q.pc = "u_write"
    /\ IF WriteLocked(Others(q))
       THEN Finish(Others(q), Locked(q), RaisedOperationalError)
       ELSE LET out == RepoUpdate(q.view, q.vid, UpdateData(q.upd), t)
                me == [q EXCEPT !.writes = @ + 1, !.lock = TRUE]
            IN  IF ~out.ok THEN Finish(Others(q), me, OnUpdateIntegrityError)
                ELSE IF out.id = 0 THEN Finish(Others(q), me, Returned(0))
                ELSE Continue(Others(q), [me EXCEPT !.view = out.store,
                                                    !.pc = "u_refresh"])
    /\ now' = t
    /\ UNCHANGED <<vendors, exported>>

\* if updated_vendor: await self._session.refresh(updated_vendor); return
\* updated_vendor.  update_vendor has no except clause.
UpdateRefresh(q) ==
    /\ q \in InFlight /\ q.pc = "u_refresh"
    /\ IF Refresh(q.view, q.vid)
       THEN Finish(Others(q), q, Returned(q.vid))
       ELSE Finish(Others(q), q, RaisedInvalidRequestError)
    /\ UNCHANGED <<vendors, exported, now>>

(* --------------------------- delete_vendor ---------------------------- *)
\* return await self._repository.delete(vendor_id): the DELETE statement
\* opens the session's write transaction whether it finds the row or not
Delete(id) ==
    /\ Free
    /\ LET me == GetDbSession([Idle EXCEPT !.op = "delete", !.vid = id])
           out == RepoDelete(me.view, id)
       IN  IF WriteLocked(req)
           THEN Finish(req, Locked(me), RaisedOperationalError)
           ELSE Finish(req, [me EXCEPT !.writes = 1, !.lock = TRUE,
                                       !.view = out.store],
                       ReturnedBool(out.flag))
    /\ UNCHANGED <<vendors, exported, now>>

(* --------------------------- get_vendor_by_id ------------------------- *)
\* vendor = await self._repository.get_by_id(vendor_id); return ... if vendor
\* else None
Get(id) ==
    /\ Free
    /\ LET me == GetDbSession([Idle EXCEPT !.op = "get", !.vid = id])
       IN  Finish(req, me, Returned(GetById(me.view, id)))
    /\ UNCHANGED <<vendors, exported, now>>

(* ------------------------- import_vendors_csv ------------------------- *)
\* ImportError(row_number=row_num, field=..., error=..., raw_data=row.to_dict())
ImportError(row_num, field, raw) ==
    [row_number |-> row_num, field |-> field, raw_data |-> raw]

\* The loop from the row at idx up to its next await.  row_num = idx + 2
\* stands before the try: a label that is no number ends the call with
\* TypeError.  A row that fails the basic validation gets its error record
\* (RowFailed) and the loop goes on.
RECURSIVE NextRow(_)
NextRow(q) ==
    IF q.idx > Len(q.rows) THEN q
    ELSE IF RowNumRaises(q.index[q.idx]) THEN [q EXCEPT !.pc = "i_type_error"]
    ELSE IF RowBlank(q.columns, q.rows[q.idx]) = "" THEN [q EXCEPT !.pc = "i_lookup"]
    ELSE IF RowNumRefused(q.index[q.idx])
    THEN [q EXCEPT !.pc = "i_validation_error"]
    ELSE NextRow([q EXCEPT !.idx = @ + 1,
                           !.errors = Append(@, ImportError(RowNum(q.index[q.idx]),
                                            RowBlank(q.columns, q.rows[q.idx]),
                                            q.rows[q.idx]))])

\* errors.append(ImportError(...)) for the row at idx, then the loop goes
\* on; row_number is an int field, so the record of a row whose label is
\* NaN, or a float that is no whole number, raises ValidationError, in the
\* except clause too, and the call ends
RowFailed(q, field) ==
    IF RowNumRefused(q.index[q.idx]) THEN [q EXCEPT !.pc = "i_validation_error"]
    ELSE NextRow([q EXCEPT !.idx = @ + 1,
                           !.errors = Append(@, ImportError(RowNum(q.index[q.idx]),
                                                            field, q.rows[q.idx]))])

\* create_vendor returned and success_count is left as it was
RowCreatedUncounted(q) ==
    NextRow([q EXCEPT !.idx = @ + 1])

\* create_vendor returned: success_count += 1, and the loop goes on
RowCreated(q) ==
    NextRow([q EXCEPT !.idx = @ + 1, !.success_count = @ + 1])

\* ImportResult(total_rows=total_rows, success_count=success_count,
\* error_count=len(errors), errors=errors) of the call q, total_rows being
\* len(df)
ImportResult(q) ==
    [total_rows |-> Len(q.rows), success_count |-> q.success_count,
     error_count |-> Len(q.errors), errors |-> q.errors]

\* return ImportResult(total_rows, success_count, error_count, errors) once
\* the loop is over: the counts and errors of the ended call; or the
\* exception that left the loop
Proceed(rq, me) ==
    IF me.pc = "i_type_error" THEN Finish(rq, me, RaisedTypeError)
    ELSE IF me.pc = "i_validation_error" THEN Finish(rq, me, RaisedValidationError)
    ELSE IF me.idx > Len(me.rows) THEN Finish(rq, me, Returned(0))
    ELSE Continue(rq, me)

\* the upload f that was read as the table df
Loaded(f, df) ==
    [fails |-> FALSE, missing |-> MissingCols(f),
     columns |-> df.columns, rows |-> IterRows(df), index |-> df.index]

\* What import_vendors_csv makes of the uploaded document before its loop:
\* whether pd.read_csv raises, the missing columns, and df as the loop reads
\* it (the rows and the index labels of df.iterrows()).
ParseUpload(f) ==
    IF ParseFails(f)
    THEN [fails |-> TRUE, missing |-> {}, columns |-> <<>>, rows |-> <<>>,
          index |-> <<>>]
    ELSE Loaded(f, ReadCsv(f))

\* the parse of the uploads above, worked out once
Parsed == [f \in ImportInputs |-> ParseUpload(f)]

Upload(f) == IF f \in ImportInputs THEN Parsed[f] ELSE ParseUpload(f)

\* the call me with the upload u read: 400 for a document that cannot be
\* read or lacks a column, else the loop up to its first lookup
ImportStart(u, me) ==
    IF u.fails
    THEN Finish(req, me, InvalidCsv)
    ELSE IF u.missing # {}
    THEN Finish(req, me, MissingColumns)
    ELSE Proceed(req, NextRow([me EXCEPT !.rows = u.rows, !.index = u.index,
                                         !.idx = 1]))

\* an import_vendors_csv call, up to its first lookup
Import(f) ==
    /\ Free
    /\ ImportStart(Upload(f),
                   GetDbSession([Idle EXCEPT !.op = "import", !.doc = f,
                                             !.columns = Upload(f).columns]))
    /\ UNCHANGED <<vendors, exported, now>>

\* session.flush() raised inside repository.create: the session rolls its
\* transaction back (what the call had written is gone and the write lock
\* is given up) and is left unusable; import_vendors_csv goes on using it
OnFailedFlush(q) == [q EXCEPT !.broken = TRUE, !.view = vendors, !.lock = FALSE]

\* the duplicate lookup against the committed table alone
ImportLookupAtStart(q) ==
    /\ q \in InFlight /\ q.pc = "i_lookup"
    /\ LET d == RowData(q.columns, q.rows[q.idx])
       IN  IF GetByTaxId(vendors, d.tax_id) # 0
           THEN Proceed(Others(q), RowFailed(q, "tax_id"))
           ELSE Proceed(Others(q), [q EXCEPT !.pc = "i_check"])
    /\ UNCHANGED <<vendors, exported, now>>

\* existing_vendor = await get_by_tax_id(vendor_data.tax_id); with a broken
\* session the statement raises, which except Exception records
ImportLookup(q) ==
    /\ q \in InFlight /\ q.pc = "i_lookup"
    /\ LET d == RowData(q.columns, q.rows[q.idx])
       IN  IF q.broken
           THEN Proceed(Others(q), RowFailed(q, "general"))
           ELSE IF GetByTaxId(q.view, d.tax_id) # 0
           THEN Proceed(Others(q), RowFailed(q, "tax_id"))
           ELSE Proceed(Others(q), [q EXCEPT !.pc = "i_check"])
    /\ UNCHANGED <<vendors, exported, now>>

\* await self.create_vendor(vendor_data): its pre-check; the HTTPException
\* is caught by except Exception and recorded under 'general'
ImportCheck(q) ==
    /\ q \in InFlight /\ q.pc = "i_check"
    /\ LET d == RowData(q.columns, q.rows[q.idx])
       IN  IF CreatePrecheck(q.view, d.tax_id)
           THEN Proceed(Others(q), RowFailed(q, "general"))
           ELSE Proceed(Others(q), [q EXCEPT !.pc = "i_write"])
    /\ UNCHANGED <<vendors, exported, now>>

\* create_vendor's repository.create up to its second await: add and flush;
\* what the flush raises is caught by except Exception and recorded under
\* 'general'
ImportWrite(q, t) ==
    /\ q \in InFlight /\ q.pc = "i_write"
    /\ IF WriteLocked(Others(q))
       THEN Proceed(Others(q), RowFailed(OnFailedFlush(Locked(q)), "general"))
       ELSE LET d == RowData(q.columns, q.rows[q.idx])
                out == RepoCreate(q.view, d, t)
                me == [q EXCEPT !.writes = @ + 1]
            IN  IF out.ok
                THEN Continue(Others(q), [me EXCEPT !.view = out.store, !.lock = TRUE,
                                                    !.vid = out.id, !.pc = "i_refresh"])
                ELSE Proceed(Others(q), RowFailed(OnFailedFlush(me), "general"))
    /\ now' = t
    /\ UNCHANGED <<vendors, exported>>

\* await self._session.refresh(vendor) of the row's create_vendor, then
\* success_count += 1; the InvalidRequestError of a row that is gone is
\* caught by except Exception and recorded under 'general'
ImportRefresh(q) ==
    /\ q \in InFlight /\ q.pc = "i_refresh"
    /\ IF Refresh(q.view, q.vid)
       THEN Proceed(Others(q), RowCreated(q))
       ELSE Proceed(Others(q), RowFailed(q, "general"))
    /\ UNCHANGED <<vendors, exported, now>>

(* ------------------------ search_vendors_paged ------------------------ *)
\* SQL LIKE of sqlite: % is any run of characters, _ any one character, any
\* other character itself without regard to the case of ASCII letters; the
\* statement names no ESCAPE character
RECURSIVE LikeChars(_, _)
LikeChars(pattern, text) ==
    IF pattern = <<>> THEN text = <<>>
    ELSE IF Head(pattern) = "%"
    THEN LikeChars(Tail(pattern), text)
            \/ (text # <<>> /\ LikeChars(pattern, Tail(text)))
    ELSE IF text = <<>> THEN FALSE
    ELSE IF Head(pattern) = "_" THEN LikeChars(Tail(pattern), Tail(text))
    ELSE /\ AsciiLowerChar(Head(pattern)) = AsciiLowerChar(Head(text))
         /\ LikeChars(Tail(pattern), Tail(text))

\* text LIKE pattern, for texts that hold no NUL (sqlite reads a text up to
\* its first NUL)
Like(pattern, text) ==
    Within(\A k \in 1..Len(pattern \o text) : (pattern \o text)[k] # "U+0000",
           LikeChars(pattern, text))

\* func.lower(column).like(f"%{x.lower()}%"): the filter is put in lower
\* case by str.lower(), the column by lower() of sqlite; NULL is like
\* nothing
Condition(field, x) ==
    field # None /\ Like(<<"%">> \o Lower(x) \o <<"%">>, SqliteLower(field))

\* the conditions built: one for every filter that is truthy (if name: ...)
Conditions(params) == {f \in FieldNames : Truthy(params[f])}

\* where(or_(*conditions)); no condition: no where clause
Matches(row, params) ==
    \/ Conditions(params) = {}
    \/ \E f \in Conditions(params) : Condition(row[f], params[f])

\* select(func.count()).select_from(Vendor), with the where clause
TotalCount(store, params) ==
    Cardinality({v \in DOMAIN store : Matches(store[v], params)})

\* the ids from the last one down
RECURSIVE Descending(_)
Descending(S) ==
    IF S = {} THEN <<>>
    ELSE LET m == CHOOSE x \in S : \A y \in S : y <= x
         IN  <<m>> \o Descending(S \ {m})

\* order_by(Vendor.id)
OrderById(S) == Ascending(S)

\* OFFSET and LIMIT of sqlite: a negative offset is 0, a negative limit is
\* no limit
Slice(seq, offset, limit) ==
    LET from == IF offset < 0 THEN 0 ELSE offset
        upto == IF limit < 0 \/ from + limit > Len(seq) THEN Len(seq) ELSE from + limit
    IN  SubSeq(seq, from + 1, upto)

\* the page query with the offset of a page counted from 0
PageQueryFromZero(store, params, page, page_size) ==
    Slice(OrderById({v \in DOMAIN store : Matches(store[v], params)}),
          page * page_size, page_size)

\* query.order_by(Vendor.id).offset((page - 1) * page_size).limit(page_size)
PageQuery(store, params, page, page_size) ==
    Slice(OrderById({v \in DOMAIN store : Matches(store[v], params)}),
          (page - 1) * page_size, page_size)

\* if page < 1: page = 1
ClampPage(page) == IF page < 1 THEN 1 ELSE page

\* page_size without its upper limit
ClampPageSizeFromBelow(page_size) == IF page_size < 1 THEN 1 ELSE page_size

\* if page_size < 1: page_size = 1 / elif page_size > 100: page_size = 100
ClampPageSize(page_size) ==
    IF page_size < 1 THEN 1
    ELSE IF page_size > 100 THEN 100
    ELSE page_size

\* floor division
TotalPagesFloor(total_count, page_size) == total_count \div page_size

\* total_pages = (total_count + page_size - 1) // page_size
TotalPages(total_count, page_size) == (total_count + page_size - 1) \div page_size

\* VendorPaginationResponse: page: Field(ge=1), page_size: Field(ge=1, le=100)
ResponseValid(page, page_size) == page >= 1 /\ page_size >= 1 /\ page_size <= 100

\* search_vendors_paged on a table that no request writes meanwhile: the
\* VendorPaginationResponse, or the exception
SearchVendorsPaged(store, params, page0, page_size0) ==
    LET page == ClampPage(page0)
        page_size == ClampPageSize(page_size0)
    IN  [items |-> PageQuery(store, params, page, page_size),
         total |-> TotalCount(store, params),
         page |-> page,
         page_size |-> page_size,
         total_pages |-> IF page_size = 0 THEN 0
                         ELSE TotalPages(TotalCount(store, params), page_size),
         fails |-> page_size = 0 \/ ~ResponseValid(page, page_size)]

\* a search_vendors_paged call, up to the await of its page query: the
\* pagination parameters are put in range and the count query runs
Search(params, page, page_size) ==
    /\ Free
    /\ LET me == GetDbSession([Idle EXCEPT !.op = "search", !.params = params,
                               !.raw_page = page, !.raw_page_size = page_size,
                               !.page = ClampPage(page),
                               !.page_size = ClampPageSize(page_size)])
       IN  Continue(req, [me EXCEPT
               !.total = TotalCount(me.view, params),
               !.pc = "s_page"])
    /\ UNCHANGED <<vendors, exported, now>>

\* result = await self._session.execute(query); total_pages; the response
SearchPage(q) ==
    /\ q \in InFlight /\ q.pc = "s_page"
    /\ LET me == [q EXCEPT !.items = PageQuery(q.view, q.params, q.page, q.page_size),
                           !.total_pages = IF q.page_size = 0 THEN 0
                                           ELSE TotalPages(q.total, q.page_size)]
       IN  IF q.page_size = 0
           THEN Finish(Others(q), me, RaisedZeroDivisionError)
           ELSE IF ~ResponseValid(q.page, q.page_size)
           THEN Finish(Others(q), me, RaisedValidationError)
           ELSE Finish(Others(q), me, Returned(0))
    /\ UNCHANGED <<vendors, exported, now>>

(* ---------------------------- the change feed -------------------------- *)
\* changed_vendors[start_index:end_index]: the slice of a Python list; a
\* negative index counts from the end, an index beyond an end stops there
PySlice(seq, start, stop) ==
    LET n == Len(seq)
        At(i) == IF i < 0 THEN (IF i + n < 0 THEN 0 ELSE i + n)
                 ELSE IF i > n THEN n ELSE i
    IN  SubSeq(seq, At(start) + 1, At(stop))

\* a // b of Python ints, b # 0: the floor of the quotient
FloorDiv(a, b) == IF b > 0 THEN a \div b ELSE (0 - a) \div (0 - b)

\* since_timestamp: a datetime, by the time it names and whether it carries
\* a UTC offset (tzinfo).  The updated_at that sqlite hands out carries none.
Moment(at, aware) == [at |-> at, aware |-> aware]

\* vendor.updated_at > since_timestamp raises TypeError (can't compare
\* offset-naive and offset-aware datetimes) at the first vendor of the list
ComparisonRaises(store, since) == since.aware /\ DOMAIN store # {}

\* [vendor for vendor in all_vendors if vendor.updated_at > since_timestamp]
ChangedVendors(store, since) ==
    LET ids == Ascending(DOMAIN store)
    IN  Within(~ComparisonRaises(store, since),
               SelectSeq(ids, LAMBDA v : store[v].updated_at > since.at))

\* VendorChange(vendor_id=vendor.id, change_type="updated", ...,
\*              timestamp=vendor.updated_at, vendor_data=...)
VendorChange(store, v) ==
    [vendor_id |-> v, change_type |-> "updated",
     timestamp |-> store[v].updated_at, vendor_data |-> store[v]]

\* VendorChangesResponse: page: int = Field(ge=1),
\* page_size: int = Field(ge=1, le=100)
ChangesResponseValid(page, page_size) ==
    page >= 1 /\ page_size >= 1 /\ page_size <= 100

\* get_vendor_changes_since after its get_all_vendors: the filter, the slice,
\* the conversion, the page count and the response model
GetVendorChangesSince(store, since, page, page_size) ==
    LET changed_vendors == IF ComparisonRaises(store, since) THEN <<>>
                           ELSE ChangedVendors(store, since)
        start_index == (page - 1) * page_size
        end_index == start_index + page_size
        paginated_vendors == PySlice(changed_vendors, start_index, end_index)
        changes == [i \in 1..Len(paginated_vendors) |->
                        VendorChange(store, paginated_vendors[i])]
        answer(res, ch, pages) ==
            [changes |-> ch, total_changes |-> Len(changed_vendors),
             page |-> page, page_size |-> page_size, total_pages |-> pages,
             result |-> res]
    IN  IF ComparisonRaises(store, since) THEN answer(RaisedTypeError, <<>>, 0)
        ELSE IF page_size = 0 THEN answer(RaisedZeroDivisionError, <<>>, 0)
        ELSE IF ~ChangesResponseValid(page, page_size)
        THEN answer(RaisedValidationError, <<>>, 0)
        ELSE answer(Returned(0), changes,
                    FloorDiv(Len(changed_vendors) + page_size - 1, page_size))

\* One call of get_vendor_changes_since: its one await is the SELECT of
\* get_all_vendors, everything after it runs without a pause.
Changes(since, page, page_size) ==
    /\ Free
    /\ LET out == GetVendorChangesSince(vendors, since, page, page_size)
       IN  last' = [Idle EXCEPT !.op = "changes", !.pc = "done",
                                !.since = since,
                                !.raw_page = page, !.raw_page_size = page_size,
                                !.page = out.page, !.page_size = out.page_size,
                                !.total = out.total_changes,
                                !.changes = out.changes,
                                !.total_pages = out.total_pages,
                                !.result = out.result]
    /\ UNCHANGED <<vendors, exported, now, req>>
    /\ UNCHANGED hookvars

\* a health check that reports the updated_at of the vendor listed first
LastUpdatedOfFirst(all_vendors) ==
    IF all_vendors = <<>> THEN [has |-> FALSE, at |-> 0]
    ELSE [has |-> TRUE, at |-> all_vendors[1].updated_at]

\* max((v.updated_at for v in vendors), default=None) if vendors else None
LastUpdated(all_vendors) ==
    IF all_vendors = <<>> THEN [has |-> FALSE, at |-> 0]
    ELSE [has |-> TRUE,
          at |-> Max({all_vendors[i].updated_at : i \in 1..Len(all_vendors)})]

\* get_health_status: fails says that get_all_vendors raised (the storage
\* did not answer); the except clause then answers "unhealthy" with
\* total_vendors and last_updated left None
GetHealthStatus(store, fails) ==
    IF fails
    THEN [status |-> "unhealthy", has_total |-> FALSE, total_vendors |-> 0,
          has_last |-> FALSE, last_updated |-> 0]
    ELSE LET all_vendors == GetAll(store)
             last_updated == LastUpdated(all_vendors)
         IN  [status |-> "healthy", has_total |-> TRUE,
              total_vendors |-> Len(all_vendors),
              has_last |-> last_updated.has, last_updated |-> last_updated.at]

\* One call of get_health_status: its one await is the SELECT of
\* get_all_vendors.
Health(fails) ==
    /\ Free
    /\ last' = [Idle EXCEPT !.op = "health", !.pc = "done",
                            !.broken = fails,
                            !.health = GetHealthStatus(vendors, fails),
                            !.result = Returned(0)]
    /\ UNCHANGED <<vendors, exported, now, req>>
    /\ UNCHANGED hookvars

(* ------------------------ the webhook notifier ------------------------ *)
\* The IntegrationService objects: two, which is what it takes to tell the
\* session of one from the session of the other.
Services == {1, 2}
\* calls of send_webhook_notification that reach session.post
MaxSends == 3

\* webhook_url: Optional[str] = None; the dependencies of the routes pass
\* None, a caller of the class passes any text
Endpoint == <<"h", "t", "t", "p">>
UrlInputs == {None, <<>>, Endpoint}

\* WebhookEventType
EventTypes == {"vendor.created", "vendor.updated", "vendor.deleted", "vendor.imported"}

\* response.status of the endpoint
Statuses == {200, 201, 202, 204, 404, 500}

\* What session.post(...) comes to.  It raises before a request leaves
\* (RuntimeError of a closed session, TypeError of a body that json.dumps
\* cannot encode), or the request leaves and the call waits for a response,
\* an aiohttp.ClientError or the asyncio.TimeoutError of ClientTimeout.
NotSent == [kind |-> "not sent", status |-> 0]
ClientError == [kind |-> "ClientError", status |-> 0]
TimedOut == [kind |-> "TimeoutError", status |-> 0]
Answered(status) == [kind |-> "response", status |-> status]
PostOutcomes == {ClientError, TimedOut} \cup {Answered(status) : status \in Statuses}

\* a handler that lets the timeout of the request out
SendResultTimeoutOut(out) ==
    IF out.kind = "response" THEN ReturnedBool(out.status \in {200, 201, 202})
    ELSE IF out.kind = "TimeoutError"
    THEN [kind |-> "TimeoutError", status |-> 0, vid |-> 0, flag |-> FALSE]
    ELSE ReturnedBool(FALSE)

\* if response.status in (200, 201, 202): return True / else: return False /
\* except Exception: return False
SendResult(out) ==
    IF out.kind = "response" THEN ReturnedBool(out.status \in {200, 201, 202})
    ELSE ReturnedBool(FALSE)

\* a test of the endpoint that takes the empty text for an endpoint
ConfiguredUnlessNone(url) == url # None

\* if not self.webhook_url: None and the empty text are no endpoint
Configured(url) == Truthy(url)

\* IntegrationService(vendor_service, webhook_url=url)
NewService(url) ==
    /\ app = "running"
    /\ Len(services) < Cardinality(Services)
    /\ services' = Append(services, [webhook_url |-> url, webhook_session |-> 0])
    /\ last' = Idle
    /\ UNCHANGED <<vendors, exported, now, req, sessions, posts, app>>

\* a send that makes its own ClientSession whether the service holds one
\* or not
SessionPerSend(svc) == 0

\* if not self._webhook_session: the session the service holds, 0 for None
SessionHeld(svc) == svc.webhook_session

\* send_webhook_notification of the service s up to its first pause: without
\* a webhook_url it returns True; with one it builds the payload under a
\* fresh event_id, makes the session if the service holds none and calls
\* session.post once.  sent says the request left; otherwise post raised at
\* once and the call returned False.  Once the request has left, the call
\* reads event_type for its log line only: the waiting call does not carry it.
Send(s, event_type, sent) ==
    /\ app = "running" /\ Free
    /\ s \in DOMAIN services
    /\ LET svc == services[s]
           me == [Idle EXCEPT !.op = "send", !.service = s,
                              !.event_type = event_type]
       IN  IF ~Configured(svc.webhook_url)
           THEN /\ ~sent
                /\ last' = Ended(me, ReturnedBool(TRUE))
                /\ UNCHANGED <<req, services, sessions, posts>>
           ELSE /\ Len(posts) < MaxSends
                /\ LET held == SessionHeld(svc)
                       sid == IF held = 0 THEN Len(sessions) + 1 ELSE held
                       made == IF held = 0
                               THEN Append(sessions, [owner |-> s, closed |-> FALSE])
                               ELSE sessions
                       event_id == Len(posts) + 1
                       call == [me EXCEPT !.event_id = event_id, !.session = sid]
                       leaves == sent /\ ~made[sid].closed
                   IN  /\ sessions' = made
                       /\ services' = [services EXCEPT ![s].webhook_session = sid]
                       /\ posts' = Append(posts,
                                          [event_id |-> event_id, service |-> s,
                                           session |-> sid,
                                           result |-> IF leaves THEN "pending"
                                                      ELSE "false"])
                       /\ IF leaves
                          THEN /\ req' = req (+) SetToBag({[call EXCEPT !.pc = "posting",
                                                                        !.event_type = ""]})
                               /\ last' = Idle
                          ELSE /\ req' = req
                               /\ last' = Ended([call EXCEPT !.response = NotSent],
                                                ReturnedBool(FALSE))
    /\ UNCHANGED <<vendors, exported, now, app>>

\* a send that posts its event once more after a delivery that failed
SendDoneRetrying(q, out) ==
    /\ q \in InFlight /\ q.pc = "posting"
    /\ LET res == SendResult(out)
           again == res # ReturnedBool(TRUE) /\ Len(posts) < MaxSends
       IN  /\ posts' = IF again
                       THEN Append([posts EXCEPT ![q.event_id].result = "false"],
                                   [event_id |-> q.event_id, service |-> q.service,
                                    session |-> q.session, result |-> "pending"])
                       ELSE [posts EXCEPT ![q.event_id].result =
                                IF res = ReturnedBool(TRUE) THEN "true" ELSE "false"]
           /\ req' = IF again THEN req ELSE Others(q)
           /\ last' = IF again THEN Idle ELSE Ended([q EXCEPT !.response = out], res)
    /\ UNCHANGED <<vendors, exported, now, services, sessions, app>>

\* the post of the call q comes back: a response or an exception
SendDone(q, out) ==
    /\ q \in InFlight /\ q.pc = "posting"
    /\ LET res == SendResult(out)
       IN  /\ posts' = [posts EXCEPT ![q.event_id].result =
                           IF res = ReturnedBool(TRUE) THEN "true" ELSE "false"]
           /\ req' = Others(q)
           /\ last' = Ended([q EXCEPT !.response = out], res)
    /\ UNCHANGED <<vendors, exported, now, services, sessions, app>>

\* close() of the service s up to its pause: if self._webhook_session:
\* await self._webhook_session.close()
Close(s) ==
    /\ app = "running" /\ Free
    /\ s \in DOMAIN services
    /\ LET sid == services[s].webhook_session
           me == [Idle EXCEPT !.op = "close", !.service = s, !.session = sid]
       IN  IF sid = 0
           THEN /\ last' = Ended(me, Returned(0))
                /\ UNCHANGED <<req, sessions>>
           ELSE /\ sessions' = [sessions EXCEPT ![sid].closed = TRUE]
                /\ req' = req (+) SetToBag({[me EXCEPT !.pc = "closing"]})
                /\ last' = Idle
    /\ UNCHANGED <<vendors, exported, now, services, posts, app>>

\* self._webhook_session = None
CloseDone(q) ==
    /\ q \in InFlight /\ q.pc = "closing"
    /\ services' = [services EXCEPT ![q.service].webhook_session = 0]
    /\ req' = Others(q)
    /\ last' = Ended(q, Returned(0))
    /\ UNCHANGED <<vendors, exported, now, sessions, posts, app>>

\* lifespan after its yield, once the server has let the requests in flight
\* end: nothing is run
Shutdown ==
    /\ app = "running" /\ Quiet
    /\ app' = "stopped"
    /\ last' = Idle
    /\ UNCHANGED <<vendors, exported, now, req, services, sessions, posts>>

(* ---------------------------- specification --------------------------- *)
\* The application starts on the table that the database file holds.  No
\* step changes it: nothing in the application commits.
InitOn(tables) ==
    /\ vendors \in tables
    /\ now = Clock(vendors)
    /\ req = EmptyBag
    /\ last = Idle
    /\ services = <<>>
    /\ sessions = <<>>
    /\ posts = <<>>
    /\ app = "running"
    /\ exported = {}

Init == InitOn(StoredTables)

Next ==
    \/ \E d \in CreateInputs : Create(d)
    \/ \E q \in InFlight, t \in Times : CreateWrite(q, t)
    \/ \E q \in InFlight : CreateRefresh(q)
    \/ \E id \in 1..MaxId, p \in UpdateInputs : Update(id, p)
    \/ \E q \in InFlight : UpdateCheck(q)
    \/ \E q \in InFlight, t \in Times : UpdateWrite(q, t)
    \/ \E q \in InFlight : UpdateRefresh(q)
    \/ \E id \in 1..MaxId : Delete(id)
    \/ \E f \in ImportInputs : Import(f)
    \/ \E q \in InFlight : ImportLookup(q)
    \/ \E q \in InFlight : ImportCheck(q)
    \/ \E q \in InFlight, t \in Times : ImportWrite(q, t)
    \/ \E q \in InFlight : ImportRefresh(q)
    \/ \E q \in InFlight : Discard(q)

Spec == Init /\ [][Next]_vars

TypeOK ==
    /\ DOMAIN vendors \subseteq 1..MaxId
    /\ now \in 0..MaxTime

(* ------------------- sequential use: import and export ----------------- *)
\* the tables imported into, one request at a time
SeqTables ==
    { <<>>,
      << Stored(Acme, T1, Addr, None, 0, 0) >>,
      << Stored(Bolt, T07, None, Mail, 0, 0) >>,
      << Stored(Acme, T1, Addr, None, 0, 0), Stored(Bolt, T07, None, Mail, 0, 0) >> }

\* the vendors created one request at a time
SeqCreateInputs ==
    { [name |-> Acme, tax_id |-> T1,  address |-> Addr, contact_email |-> None],
      [name |-> Bolt, tax_id |-> T07, address |-> None, contact_email |-> Mail] }

\* the uploads imported one request at a time: cells of blanks and cells of
\* nothing; rows that fail one after the other before a row that is in order;
\* data lines of one field more than the header (as when every line ends in
\* a delimiter); a tax_id with a blank before it and a name of a tab; columns
\* of numbers; an address in capitals with a blank before it; a header
\* without a column, a header in capitals, and no bytes at all; a line of a
\* blank before the header and a line of a tab among the data lines, a
\* tax_id after a vertical tab, a name that is one, and an address in angle
\* brackets; a name that spells a boolean; tax_ids written as decimal
\* numbers, and an address whose domain ends in a digit; a tax_id of 17
\* digits above a cell of nothing; rows that fail under the float labels
\* 3.0, 1e-17 and 1e+19
SeqImportInputs ==
    { Doc(ExpectedCols, << Line(<<" ">>, T1, Empty, Empty),
                           Line(Empty, T1, Empty, Empty),
                           Line(Acme, Empty, Addr, Empty) >>),
      Doc(ExpectedCols, << Line(Acme, <<" ", " ">>, Addr, Empty),
                           Line(Acme, T1, Addr, Empty),
                           Line(Bolt, T1, Empty, Empty),
                           Line(Bolt, T2, Empty, <<"x">>),
                           Line(Bolt, T2, Empty, Mail) >>),
      Doc(ExpectedCols, << <<<<"5">>, Acme, T1, Empty, Empty>>,
                           <<<<"6">>, Bolt, T1, Empty, Empty>> >>),
      Doc(ExpectedCols, << <<Acme, T1, Addr, Empty, Empty>> >>),
      Doc(ExpectedCols, << Line(<<"\t">>, T1, Empty, Empty),
                           Line(Acme, <<"\t", "T", "1">>, Addr, Empty) >>),
      Doc(ExpectedCols, << Line(<<"1">>, <<"2">>, Empty, Empty) >>),
      Doc(ExpectedCols, << Line(Bolt, T2, Empty, <<" ", "a", "@", "B", ".", "C", "O">>) >>),
      Doc(<<ColName, ColTaxId, ColAddress>>, << <<Acme, T1, Addr>> >>),
      Doc(<<<<"N", "a", "m", "e">>, ColTaxId, ColAddress, ColEmail>>,
          << Line(Acme, T1, Addr, Empty) >>),
      Doc(<< <<" ">> >>,
          << ExpectedCols,
             Line(Acme, <<"U+000B", "T", "1">>, Addr, <<"<", "a", "@", "b", ".", "c", "o", ">">>),
             << <<"\t">> >>,
             Line(<<"U+000B">>, T2, Empty, Empty),
             Line(Bolt, T2, Empty, Empty) >>),
      Doc(ExpectedCols, << Line(<<"t", "R", "U", "E">>, T2, Empty, Empty) >>),
      Doc(ExpectedCols,
          << Line(Acme, <<"1", ".", "5", "0">>, Empty, Empty),
             Line(Bolt, <<"1", "e", "5">>, Empty, <<"a", "@", "b", ".", "c", "0">>) >>),
      Doc(ExpectedCols,
          << Line(Acme, <<"1">> \o Zeros(16), Empty, Empty),
             Line(Bolt, Empty, Empty, Empty) >>),
      Doc(ExpectedCols,
          << <<<<"3", ".", "0">>, Acme, T1, Empty, <<"x">>>>,
             <<<<"1", "e", "-", "1", "7">>, Bolt, T1, Empty, <<"x">>>>,
             <<<<"1", "e", "1", "9">>, Bolt, T2, Empty, <<"x">>>> >>),
      Doc(<<>>, <<>>) }

SeqCreate(d) == Quiet /\ Create(d)

SeqImport(f) == Quiet /\ Import(f)

\* One request exports: get_all_vendors on its session, whose one await is
\* the SELECT, then export_vendors_csv of the list.  exported holds the
\* documents that were answered.
Export ==
    /\ Free
    /\ LET me == GetDbSession([Idle EXCEPT !.op = "export"])
           f == ExportVendorsCsv(GetAll(me.view))
       IN  /\ last' = Ended([me EXCEPT !.doc = f], Returned(0))
           /\ exported' = exported \cup {f}
    /\ UNCHANGED <<vendors, now, req>>
    /\ UNCHANGED hookvars

SeqExport == Quiet /\ Export

\* a later request uploads a document that an export answered
ImportExported == \E f \in exported : Quiet /\ Import(f)

SeqNext ==
    \/ \E d \in SeqCreateInputs : SeqCreate(d)
    \/ \E q \in InFlight, t \in Times : CreateWrite(q, t)
    \/ \E q \in InFlight : CreateRefresh(q)
    \/ \E f \in SeqImportInputs : SeqImport(f)
    \/ SeqExport
    \/ ImportExported
    \/ \E q \in InFlight : ImportLookup(q)
    \/ \E q \in InFlight : ImportCheck(q)
    \/ \E q \in InFlight, t \in Times : ImportWrite(q, t)
    \/ \E q \in InFlight : ImportRefresh(q)
    \/ \E q \in InFlight : Discard(q)

SeqSpec == InitOn(SeqTables) /\ [][SeqNext]_vars

(* ------------- an import racing a create on an empty table ------------- *)
RaceDoc ==
    Doc(ExpectedCols, << Line(Acme, T1, Addr, Empty), Line(Bolt, T2, Empty, Empty) >>)

RaceCreate == Create([name |-> Bolt, tax_id |-> T1,
                      address |-> None, contact_email |-> None])

RaceImport == Import(RaceDoc)

RaceNext ==
    \/ RaceCreate
    \/ \E q \in InFlight, t \in Times : CreateWrite(q, t)
    \/ \E q \in InFlight : CreateRefresh(q)
    \/ RaceImport
    \/ \E q \in InFlight : ImportLookup(q)
    \/ \E q \in InFlight : ImportCheck(q)
    \/ \E q \in InFlight, t \in Times : ImportWrite(q, t)
    \/ \E q \in InFlight : ImportRefresh(q)
    \/ \E q \in InFlight : Discard(q)

RaceSpec == InitOn({<<>>}) /\ [][RaceNext]_vars

(* ------------------------- searching the table ------------------------- *)
\* the tables searched
SearchTables ==
    { <<>>,
      << Stored(<<"A", "b">>, T1, Addr, None, 0, 0) >>,
      << Stored(<<"A", "b">>, T1, Addr, None, 0, 0),
         Stored(<<"b", "_">>, T2, None, Mail, 0, 0),
         Stored(<<"C">>, T07, Addr, None, 0, 0) >>,
      (1 :> Stored(<<"A", "b">>, T1, Addr, None, 0, 0))
         @@ (3 :> Stored(<<"C">>, T07, Addr, None, 0, 0)),
      << Stored(<<"U+00C9">>, T1, None, None, 0, 0),
         Stored(<<"U+00E9">>, T2, None, None, 0, 0) >> }

\* VendorSearchParams: every filter optional
SearchInputs ==
    { NoValues,
      [NoValues EXCEPT !.name = <<"B">>],
      [NoValues EXCEPT !.name = <<"_">>],
      [NoValues EXCEPT !.name = <<"U+00C9">>],
      [NoValues EXCEPT !.tax_id = <<"t", "2">>, !.address = <<"S">>],
      [NoValues EXCEPT !.name = <<>>, !.tax_id = <<"0">>] }

\* page and page_size: int, in range and out of it
PageInputs == {0, 1, 2}
PageSizeInputs == {0, 1, 2, 101}

SearchNext ==
    \/ \E p \in SearchInputs, page \in PageInputs, page_size \in PageSizeInputs :
          Quiet /\ Search(p, page, page_size)
    \/ \E q \in InFlight : SearchPage(q)

SearchSpec == InitOn(SearchTables) /\ [][SearchNext]_vars

(* ----------------------- the pagination arithmetic --------------------- *)
\* largest total_count a count query is taken to answer
MaxTotal == 105

\* search_vendors_paged over a repository whose count query answers
\* total_count: page_size put in range, then the number of pages
Paginate(total_count, page_size) ==
    /\ last' = [Idle EXCEPT !.op = "paginate", !.pc = "done",
                            !.raw_page_size = page_size,
                            !.page_size = ClampPageSize(page_size),
                            !.total = total_count,
                            !.total_pages = TotalPages(total_count,
                                                       ClampPageSize(page_size)),
                            !.result = Returned(0)]
    /\ UNCHANGED <<vendors, exported, now, req>>
    /\ UNCHANGED hookvars

PagesNext ==
    \E total_count \in 0..MaxTotal, page_size \in PageSizeInputs \cup {-1, 50, 100} :
        Paginate(total_count, page_size)

PagesSpec == InitOn({<<>>}) /\ [][PagesNext]_vars

(* ---------------------- the change feed and the writes ----------------- *)
\* since_timestamp: before, at and after the timestamps of the stored
\* vendors, without a UTC offset ('2024-01-01T00:00:00') and with one
\* ('2024-01-01T00:00:00Z')
SinceInputs == {Moment(at, aware) : at \in 0..MaxTime, aware \in BOOLEAN}

FeedNext ==
    \/ \E d \in CreateInputs : InTurn /\ Create(d)
    \/ \E q \in InFlight, t \in Times : CreateWrite(q, t)
    \/ \E q \in InFlight : CreateRefresh(q)
    \/ \E id \in 1..MaxId, p \in UpdateInputs : InTurn /\ Update(id, p)
    \/ \E q \in InFlight : UpdateCheck(q)
    \/ \E q \in InFlight, t \in Times : UpdateWrite(q, t)
    \/ \E q \in InFlight : UpdateRefresh(q)
    \/ \E id \in 1..MaxId : InTurn /\ Delete(id)
    \/ \E since \in SinceInputs, page \in PageInputs, page_size \in PageSizeInputs :
          InTurn /\ Changes(since, page, page_size)
    \/ \E fails \in BOOLEAN : InTurn /\ Health(fails)
    \/ \E q \in InFlight : Discard(q)

FeedSpec == Init /\ [][FeedNext]_vars

(* ------------------------ the webhook notifier alone ------------------- *)
HookNext ==
    \/ \E url \in UrlInputs : NewService(url)
    \/ \E s \in Services, e \in EventTypes, sent \in BOOLEAN : Send(s, e, sent)
    \/ \E q \in InFlight, out \in PostOutcomes : SendDone(q, out)
    \/ \E s \in Services : Close(s)
    \/ \E q \in InFlight : CloseDone(q)
    \/ Shutdown

HookSpec == InitOn({<<>>}) /\ [][HookNext]_vars

(* ------------------ requests one after the other ----------------------- *)
\* the vendors created, each by a request of its own
TxCreateInputs == CreateInputs \cup SeqCreateInputs

\* POST /vendors, GET /vendors/{vendor_id} and DELETE /vendors/{vendor_id}
\* on a table that is empty when the application starts
TxNext ==
    \/ \E d \in TxCreateInputs : InTurn /\ Create(d)
    \/ \E q \in InFlight, t \in Times : CreateWrite(q, t)
    \/ \E q \in InFlight : CreateRefresh(q)
    \/ \E id \in 1..MaxId : InTurn /\ Get(id)
    \/ \E id \in 1..MaxId : InTurn /\ Delete(id)
    \/ \E q \in InFlight : Discard(q)

TxSpec == InitOn({<<>>}) /\ [][TxNext]_vars

(* ------------------------------- claims ------------------------------- *)
\* the vendors of the table store whose tax_id is tax
Holders(store, tax) == {v \in DOMAIN store : store[v].tax_id = tax}

\* the committed table and the table as every session alive, and the
\* session of the call that just ended, reads it
Views == {vendors} \cup {q.view : q \in {s \in InFlight \cup {last} : s.op # "none"}}

\* the call that just ended
EndedOp(op) == last.op = op /\ last.pc = "done"

Succeeded == last.result.kind = "return" /\ last.result.vid # 0

\* C1: in every reachable state, whatever create, update, delete and import
\* requests ran and however they interleaved, no two distinct vendors of the
\* table, as it is committed and as any session reads it, have the same
\* tax_id.
C1_TaxIdUnique ==
    \A store \in Views :
        \A a, b \in DOMAIN store : a # b => store[a].tax_id # store[b].tax_id

\* an update whose pre-check did not run (its tax_id is the empty text) was
\* turned away by the table, which holds the tax_id under another id
C1_Witness ==
    /\ EndedOp("update") /\ last.writes = 1 /\ last.clean
    /\ last.result = RaisedIntegrityError
    /\ "tax_id" \in last.upd.set
    /\ UniqueViolation(last.view, last.vid, last.upd.val.tax_id)
    /\ Cardinality(DOMAIN last.view) = 2

\* a create_vendor of the tax_id of the call that just ended, on another
\* session, whose pre-check passed too and whose INSERT went through
TwinCreated ==
    {q \in InFlight : /\ q.op = "create" /\ q.data.tax_id = last.data.tax_id
                      /\ q.writes = 1 /\ q.lock
                      /\ [q EXCEPT !.pc = "done"] # last}

\* C2 (as claimed): of two create_vendor requests with the same tax_id whose
\* pre-checks both passed, the one that writes second fails with the
\* duplicate-tax-id condition of the pre-check, and nothing else.
C2_RacingCreates ==
    (EndedOp("create") /\ last.writes = 1 /\ TwinCreated # {}) =>
        last.result = DuplicateTaxId

\* C3: with a vendor of tax_id T stored, create_vendor(T) fails with the
\* duplicate-tax-id condition before any storage write: no create is at its
\* write with T stored, and the create that ended issued no write, reports
\* the duplicate and leaves the table as it was, with exactly one holder of T.
C3_DuplicateCreate ==
    /\ \A q \in InFlight :
          (q.op = "create" /\ q.pc = "c_write") =>
              Holders(vendors, q.data.tax_id) = {}
    /\ (EndedOp("create") /\ Holders(vendors, last.data.tax_id) # {}) =>
          /\ last.result = DuplicateTaxId
          /\ last.writes = 0
          /\ last.view = vendors
          /\ Cardinality(Holders(last.view, last.data.tax_id)) = 1

C3_Witness ==
    /\ EndedOp("create") /\ last.writes = 0
    /\ last.result = DuplicateTaxId
    /\ Cardinality(Holders(last.view, last.data.tax_id)) = 1

\* the update_vendor call that just ended found its vendor and met the write
\* lock of no other session
UndisturbedUpdate ==
    /\ EndedOp("update") /\ last.clean
    /\ last.existing_tax # None

\* C4 (as claimed): update_vendor(A.id, tax_id = B.tax_id) for stored A # B
\* fails with the duplicate-tax-id condition without a storage write.
C4_UpdateToTakenTaxId ==
    ( /\ UndisturbedUpdate
      /\ "tax_id" \in last.upd.set
      /\ Holders(vendors, last.upd.val.tax_id) \ {last.vid} # {} ) =>
        /\ last.result = DuplicateTaxId
        /\ last.writes = 0

\* another session has written a vendor of the tax_id tax that the
\* committed table does not hold
TakenMeanwhile(tax) ==
    \E o \in InFlight :
        o.lock /\ Holders(o.view, tax) # {} /\ Holders(vendors, tax) = {}

\* C5 (as claimed): an update_vendor whose pre-check lookup ran and found no
\* conflict, and whose UPDATE was rejected after another request had taken
\* the tax_id, fails with the duplicate-tax-id condition.
C5_UpdateRaceIsDuplicate ==
    ( /\ EndedOp("update") /\ last.writes = 1
      /\ NeedsTaxCheck(last.upd, last.existing_tax)
      /\ "name" \in last.upd.set => last.upd.val.name # None
      /\ TakenMeanwhile(last.upd.val.tax_id)
      /\ last.result.kind # "return" ) =>
        last.result = DuplicateTaxId

\* the update_vendor call q found its vendor and its payload sets tax_id to
\* the value the vendor has
SetsOwnTaxId(q) ==
    /\ q.op = "update" /\ q.existing_tax # None
    /\ "tax_id" \in q.upd.set
    /\ q.upd.val.tax_id = q.existing_tax

\* the payload p gives no null to name or tax_id, the columns that take none
GivesNoNull(p) == \A f \in p.set \cap {"name", "tax_id"} : p.val[f] # None

\* C6: update_vendor with a payload whose tax_id is the vendor's own current
\* tax_id never counts the vendor's own row as a collision and succeeds:
\* such a call is never at the lookup of a conflicting vendor and never ends
\* with the duplicate-tax-id condition, whatever else its payload holds and
\* whatever other requests do; and when its UPDATE is executed (no other
\* session holds the write lock) with a payload that gives no null to a NOT
\* NULL column, it returns the vendor, the tax_id as it was.
C6_NoSelfCollision ==
    /\ \A q \in InFlight : SetsOwnTaxId(q) => q.pc # "u_check"
    /\ (EndedOp("update") /\ SetsOwnTaxId(last)) =>
          /\ last.result # DuplicateTaxId
          /\ (last.clean /\ GivesNoNull(last.upd)) =>
                /\ last.result = Returned(last.vid)
                /\ last.view[last.vid].tax_id = last.existing_tax

\* an update whose payload held the vendor's own tax_id and nothing else
\* went through
C6_Witness ==
    /\ EndedOp("update") /\ SetsOwnTaxId(last)
    /\ last.upd.set = {"tax_id"}
    /\ last.upd.val.tax_id = T1
    /\ last.result = Returned(last.vid)
    /\ last.view[last.vid].tax_id = last.existing_tax

\* C7: a successful update_vendor gives each supplied field the supplied
\* value and leaves every other field of name, tax_id, address,
\* contact_email, the id, created_at and every other vendor as they were.
C7_UpdateFrame ==
    (EndedOp("update") /\ Succeeded) =>
        LET id == last.vid
            p == last.upd
        IN  /\ last.result.vid = id
            /\ id \in DOMAIN vendors
            /\ DOMAIN last.view = DOMAIN vendors
            /\ \A f \in FieldNames :
                  last.view[id][f] = IF f \in p.set THEN p.val[f] ELSE vendors[id][f]
            /\ last.view[id].created_at = vendors[id].created_at
            /\ \A o \in DOMAIN vendors \ {id} : last.view[o] = vendors[o]

\* a partial update went through on a vendor that has an address the payload
\* did not supply
C7_Witness ==
    /\ EndedOp("update") /\ Succeeded
    /\ "address" \notin last.upd.set
    /\ last.view[last.vid].address = Addr
    /\ last.view[last.vid].contact_email = Mail
    /\ last.view[last.vid].name # vendors[last.vid].name
    /\ last.view[last.vid].updated_at > last.view[last.vid].created_at

\* C8: update_vendor on an id that is not stored returns None for every
\* payload, issues no storage write and leaves the table as it was.
C8_UpdateMissing ==
    (EndedOp("update") /\ last.vid \notin DOMAIN vendors) =>
        /\ last.result = Returned(0)
        /\ last.writes = 0
        /\ last.view = vendors

\* the id is not stored and the payload's tax_id is one a stored vendor has
C8_Witness ==
    /\ EndedOp("update") /\ last.vid \notin DOMAIN vendors
    /\ last.result = Returned(0)
    /\ Holders(vendors, last.upd.val.tax_id) # {}

\* a delete_vendor of the id of the call that just ended, on another
\* session, that returned true
DeletedEarlier ==
    {q \in InFlight : /\ q.op = "delete" /\ q.pc = "ended" /\ q.vid = last.vid
                      /\ q.result = ReturnedBool(TRUE)
                      /\ [q EXCEPT !.pc = "done"] # last}

\* C9 (as claimed): delete_vendor(id) returns true exactly when the id was
\* stored, then removes that vendor and no other; otherwise it returns false
\* (it does not raise) and the table is unchanged, so that the delete after
\* a delete of the same id that returned true returns false.
C9_Delete ==
    EndedOp("delete") =>
        /\ last.result.kind = "return"
        /\ last.result = ReturnedBool(last.vid \in DOMAIN vendors)
        /\ last.view = IF last.vid \in DOMAIN vendors
                       THEN Remove(vendors, last.vid) ELSE vendors
        /\ DeletedEarlier # {} => last.result = ReturnedBool(FALSE)

\* the rows of the table that the call that just ended wrote
Written == {v \in DOMAIN last.view : v \notin DOMAIN vendors \/ last.view[v] # vendors[v]}

\* C10 (as claimed): every vendor that a create_vendor, update_vendor or
\* import_vendors_csv call has stored has a non-empty name and a non-empty
\* tax_id.
C10_NonEmptyNameAndTaxId ==
    (last.op \in {"create", "update", "import"} /\ last.pc = "done") =>
        \A v \in Written : last.view[v].name # <<>> /\ last.view[v].tax_id # <<>>

(* ------------------------- claims on the import ----------------------- *)
\* the tax_ids that were stored when the ended import began
StoredBefore == {vendors[v].tax_id : v \in DOMAIN vendors}

\* the VendorCreate of data row k of the ended import
EndedRow(k) == RowData(last.columns, last.rows[k])

\* data row k of the ended import passes the checks made before any lookup
EndedRowValid(k) == RowBlank(last.columns, last.rows[k]) = ""

\* an import_vendors_csv call ended that met the write lock of no other
\* session
QuietImport == EndedOp("import") /\ last.clean /\ last.result.kind = "return"

\* C11: an import that no other request disturbed, of a file whose two rows
\* carry the same tax_id that was not stored before, creates the vendor for
\* the first row and records the second row as a tax_id duplicate error;
\* exactly one vendor with that tax_id is stored afterwards.
C11_SameTaxIdTwice ==
    ( /\ QuietImport /\ Len(last.rows) = 2
      /\ EndedRowValid(1) /\ EndedRowValid(2)
      /\ EndedRow(1).tax_id = EndedRow(2).tax_id
      /\ EndedRow(1).tax_id \notin StoredBefore ) =>
        /\ last.success_count = 1
        /\ Len(last.errors) = 1
        /\ last.errors[1].row_number = 3 /\ last.errors[1].field = "tax_id"
        /\ Cardinality(Holders(last.view, EndedRow(1).tax_id)) = 1
        /\ \A v \in Holders(last.view, EndedRow(1).tax_id) :
              v \notin DOMAIN vendors /\ last.view[v].name = EndedRow(1).name

\* such an import ended
C11_Witness ==
    /\ QuietImport /\ Len(last.rows) = 2
    /\ EndedRowValid(1) /\ EndedRowValid(2)
    /\ EndedRow(1).tax_id = EndedRow(2).tax_id
    /\ EndedRow(1).tax_id \notin StoredBefore
    /\ last.success_count = 1 /\ Len(last.errors) = 1
    /\ vendors # <<>>

\* a column that import_vendors_csv expects is under no spelling, in any
\* letter case, among the columns of the document
LacksColumn(doc) ==
    \E k \in 1..Len(ExpectedCols) :
        \A j \in 1..Len(Header(doc)) : Lower(Header(doc)[j]) # ExpectedCols[k]

\* C12: import_vendors_csv of a payload that cannot be parsed, or that lacks
\* one of the columns name, tax_id, address, contact_email (compared without
\* regard to letter case), fails as a whole with a 400 bad-input error: no row
\* was processed, no ImportResult is returned and the table is unchanged.  A
\* payload with every column, in whatever letter case, does not fail so.
C12_BadInputFailsWhole ==
    EndedOp("import") =>
        IF ParseFails(last.doc) \/ LacksColumn(last.doc)
        THEN /\ last.result.kind # "return" /\ last.result.status = 400
             /\ last.result = IF ParseFails(last.doc) THEN InvalidCsv
                              ELSE MissingColumns
             /\ last.idx = 0 /\ last.writes = 0
             /\ last.success_count = 0 /\ last.errors = <<>>
             /\ last.view = vendors /\ ~last.lock
        ELSE last.result \notin {InvalidCsv, MissingColumns}

\* an upload without its contact_email column was turned away while a vendor
\* was stored
C12_Witness ==
    /\ EndedOp("import") /\ last.result = MissingColumns
    /\ ~ParseFails(last.doc) /\ Len(DataLines(last.doc)) > 0
    /\ vendors # <<>>

\* the field of data line i of the document under the column named col in
\* whatever letter case (<<>> when there is none)
FieldUnder(doc, i, col) ==
    IF \E j \in 1..Len(Header(doc)) : Lower(Header(doc)[j]) = col
    THEN FieldAt(doc, i, CHOOSE j \in 1..Len(Header(doc)) : Lower(Header(doc)[j]) = col)
    ELSE <<>>

\* the name or the tax_id cell of data line i is empty or white space only
BlankCell(doc, i) ==
    \/ Strip(FieldUnder(doc, i, ColName)) = <<>>
    \/ Strip(FieldUnder(doc, i, ColTaxId)) = <<>>

\* the error records of the ended import for data row k
ErrorsOfRow(k) == {e \in 1..Len(last.errors) : last.errors[e].row_number = k + 1}

\* an import_vendors_csv call ended with its ImportResult
ImportReturned == EndedOp("import") /\ last.result.kind = "return"

\* C13 (as claimed): every data row of an import whose name or tax_id cell is
\* blank (empty or white space only) is rejected: the ImportResult carries
\* one error record for the row, naming 'name' or 'tax_id', and no vendor was
\* created from the row.
C13_BlankRowsRejected ==
    ImportReturned =>
        \A i \in 1..Len(last.rows) :
            BlankCell(last.doc, i) =>
                /\ Cardinality(ErrorsOfRow(i)) = 1
                /\ \A e \in ErrorsOfRow(i) : last.errors[e].field \in {"name", "tax_id"}
                /\ ~\E v \in DOMAIN last.view \ DOMAIN vendors :
                      /\ last.view[v].name = EndedRow(i).name
                      /\ last.view[v].tax_id = EndedRow(i).tax_id

\* an earlier data row than k of the ended import was recorded as an error
FailedBefore(k) == \E j \in 1..(k - 1) : ErrorsOfRow(j) # {}

\* C14 (as claimed): a row of an import that fails (blank field, duplicate
\* tax_id, or an error while the row is created) never aborts the batch: the
\* import returns its ImportResult with every row accounted for, and every
\* later row that passes the row checks and whose tax_id no vendor holds was
\* created, so that it is never left with its tax_id held by no vendor.
C14_FailureNeverAborts ==
    (EndedOp("import") /\ ~ParseFails(last.doc) /\ ~LacksColumn(last.doc)) =>
        /\ last.result.kind = "return"
        /\ last.idx = Len(last.rows) + 1
        /\ \A k \in 1..Len(last.rows) :
              (FailedBefore(k) /\ EndedRowValid(k)) =>
                  Holders(last.view, EndedRow(k).tax_id) # {}

\* the import that just ended, undisturbed, was given a document that
\* export_vendors_csv answered for the vendors stored when it began
RoundTripEnded ==
    /\ QuietImport
    /\ last.doc \in exported
    /\ last.doc = ExportVendorsCsv(GetAll(vendors))

\* C15 (as claimed): for any store contents, importing the export of the
\* store into the same store creates no vendor: every row is rejected as a
\* duplicate tax_id (success_count = 0, error_count = number of vendors) and
\* the store is unchanged.
C15_RoundTripCreatesNothing ==
    RoundTripEnded =>
        /\ last.success_count = 0
        /\ Len(last.errors) = Cardinality(DOMAIN vendors)
        /\ \A e \in 1..Len(last.errors) : last.errors[e].field = "tax_id"
        /\ last.view = vendors

\* C16 (as claimed): every error record of an ImportResult for the k-th data
\* row (k from 1) carries row_number k + 1: the record's row_number n names a
\* data row, n - 1, its raw_data is that row, and the records stand in the
\* order of the rows.
C16_RowNumbers ==
    ImportReturned =>
        /\ \A e \in 1..Len(last.errors) :
              /\ last.errors[e].row_number - 1 \in 1..Len(last.rows)
              /\ last.errors[e].raw_data = last.rows[last.errors[e].row_number - 1]
        /\ \A e, f \in 1..Len(last.errors) :
              e < f => last.errors[e].row_number < last.errors[f].row_number

\* a search_vendors_paged call ended that ran while no request wrote
QuietSearch == EndedOp("search") /\ last.clean

\* what the ended search answered
Response ==
    [items |-> last.items, total |-> last.total, page |-> last.page,
     page_size |-> last.page_size, total_pages |-> last.total_pages,
     fails |-> last.result.kind # "return"]

Least(a, b) == IF a < b THEN a ELSE b
Greatest(a, b) == IF a > b THEN a ELSE b

\* C17: search_vendors_paged never fails on paging out of range; it answers
\* with page' = max(page, 1) and page_size' = min(max(page_size, 1), 100), and
\* on a table that is not written meanwhile the whole answer is the answer to
\* page' and page_size'.
C17_PagingClamped ==
    EndedOp("search") =>
        /\ last.result.kind = "return"
        /\ last.page = Greatest(last.raw_page, 1)
        /\ last.page_size = Least(Greatest(last.raw_page_size, 1), 100)
        /\ last.clean =>
              Response = SearchVendorsPaged(vendors, last.params,
                                            Greatest(last.raw_page, 1),
                                            Least(Greatest(last.raw_page_size, 1), 100))

\* page 0 with page_size 101 was answered as page 1 of 100, with vendors on it
C17_Witness ==
    /\ QuietSearch /\ last.result.kind = "return"
    /\ last.raw_page = 0 /\ last.raw_page_size = 101
    /\ last.page = 1 /\ last.page_size = 100
    /\ Len(last.items) >= 2

\* C18: total_pages is the ceiling of total / page_size, for the page_size
\* put in range and every total >= 0: the least number of pages of page_size
\* items that hold total items (0 when nothing matches, 3 for 105 at 50).
C18_TotalPagesCeiling ==
    EndedOp("paginate") =>
        /\ last.total_pages * last.page_size >= last.total
        /\ (last.total_pages - 1) * last.page_size < last.total
        /\ last.total = 0 => last.total_pages = 0
        /\ (last.total = 105 /\ last.raw_page_size = 50) => last.total_pages = 3

\* a total that is no multiple of the page size
C18_Witness ==
    /\ EndedOp("paginate")
    /\ last.total = 105 /\ last.raw_page_size = 50 /\ last.total_pages = 3

\* sub is a substring of text, without regard to the case of letters
Contains(text, sub) ==
    \E i \in 1..(Len(text) - Len(sub) + 1) :
        Lower(SubSeq(text, i, i + Len(sub) - 1)) = Lower(sub)

\* the vendor matches as claimed: no filter is supplied, or a supplied filter
\* is a case-insensitive substring of its field (an empty filter is taken as
\* not supplied, as the code takes it)
MatchesAsClaimed(row, params) ==
    \/ \A f \in FieldNames : ~Truthy(params[f])
    \/ \E f \in FieldNames :
          Truthy(params[f]) /\ row[f] # None /\ Contains(row[f], params[f])

\* C19 (as claimed): a search on a table that is not written meanwhile finds
\* exactly the vendors of which at least one supplied filter is a
\* case-insensitive substring of the corresponding field (all of them when no
\* filter is supplied): total counts them and every item is one of them.
C19_SubstringMatch ==
    (QuietSearch /\ last.result.kind = "return") =>
        /\ last.total = Cardinality({v \in DOMAIN vendors :
                                       MatchesAsClaimed(vendors[v], last.params)})
        /\ \A i \in 1..Len(last.items) :
              MatchesAsClaimed(vendors[last.items[i]], last.params)

\* C20: a search on a table that is not written meanwhile returns its items
\* in strictly ascending id order, and its total is the number of all the
\* vendors that match, whatever page and page_size are; the items are
\* matching vendors, page_size of them at most.
C20_OrderedAndCounted ==
    (QuietSearch /\ last.result.kind = "return") =>
        /\ \A i, j \in 1..Len(last.items) : i < j => last.items[i] < last.items[j]
        /\ last.total = Cardinality({v \in DOMAIN vendors :
                                       Matches(vendors[v], last.params)})
        /\ \A i \in 1..Len(last.items) :
              /\ last.items[i] \in DOMAIN vendors
              /\ Matches(vendors[last.items[i]], last.params)
        /\ Len(last.items) <= last.page_size

\* a page of two of three matching vendors
C20_Witness ==
    /\ QuietSearch /\ last.result.kind = "return"
    /\ Len(last.items) = 2 /\ last.total = 3
    /\ last.items[1] < last.items[2]

\* the stored vendors the feed has to report for the timestamp t
Qualifying(t) == {v \in DOMAIN vendors : vendors[v].updated_at > t}

\* the vendors on the page the ended feed call answered
Reported == {last.changes[i].vendor_id : i \in 1..Len(last.changes)}

\* a get_vendor_changes_since call ended with a response
FeedAnswered == EndedOp("changes") /\ last.result.kind = "return"

\* C21 (as claimed): get_vendor_changes_since(t), asked for a page in range,
\* reports exactly the stored vendors whose updated_at is strictly greater
\* than t: it answers, total_changes is their number, no vendor whose
\* updated_at is t or earlier is on any page, a page that has room for all
\* of them holds all of them, and when no vendor qualifies the change list
\* is empty and total_changes is 0.
C21_ChangesStrictlyAfter ==
    (EndedOp("changes") /\ ChangesResponseValid(last.raw_page, last.raw_page_size)) =>
        /\ FeedAnswered
        /\ last.total = Cardinality(Qualifying(last.since.at))
        /\ Reported \subseteq Qualifying(last.since.at)
        /\ (last.page = 1 /\ last.page_size >= last.total) =>
              /\ Reported = Qualifying(last.since.at)
              /\ Len(last.changes) = last.total
        /\ Qualifying(last.since.at) = {} => last.changes = <<>> /\ last.total = 0

\* what the ended feed call answered
FeedResponse ==
    [changes |-> last.changes, total_changes |-> last.total, page |-> last.page,
     page_size |-> last.page_size, total_pages |-> last.total_pages,
     result |-> last.result]

\* C22: get_vendor_changes_since applies the paging clamp of the search: it
\* never fails on a page or page_size out of range (page_size 0 and 101,
\* page 0 included) and answers what it answers for page' = max(page, 1) and
\* page_size' = min(max(page_size, 1), 100).
C22_FeedPagingClamped ==
    EndedOp("changes") =>
        /\ last.result.kind = "return"
        /\ FeedResponse =
              GetVendorChangesSince(vendors, last.since,
                                    Greatest(last.raw_page, 1),
                                    Least(Greatest(last.raw_page_size, 1), 100))

\* a delete_vendor on another session returned true for the vendor v
DeletedVendor(v) ==
    \E q \in InFlight : /\ q.op = "delete" /\ q.pc = "ended" /\ q.vid = v
                        /\ q.result = ReturnedBool(TRUE)

\* C23 (as claimed): whatever operations ran before, every entry of the
\* change feed has change_type "updated" and carries a vendor that is stored
\* when the feed answers, as it is stored: a vendor that a delete_vendor
\* request deleted is on no page, whatever timestamp is asked.
C23_FeedOnlyStoredUpdated ==
    FeedAnswered =>
        \A i \in 1..Len(last.changes) :
            LET c == last.changes[i]
            IN  /\ c.change_type = "updated"
                /\ c.vendor_id \in DOMAIN vendors
                /\ c.vendor_data = vendors[c.vendor_id]
                /\ c.timestamp = vendors[c.vendor_id].updated_at
                /\ ~DeletedVendor(c.vendor_id)

\* C24: in every reachable state every stored vendor, of the table as it is
\* committed and as any session reads it, has updated_at >= created_at, and
\* every successful update_vendor leaves the vendor with an updated_at that
\* is not earlier than the one it had.
C24_TimestampsOrdered ==
    /\ \A store \in Views :
          \A v \in DOMAIN store : store[v].updated_at >= store[v].created_at
    /\ (EndedOp("update") /\ Succeeded) =>
          /\ last.vid \in DOMAIN vendors
          /\ last.view[last.vid].updated_at >= vendors[last.vid].updated_at

\* an update went through after the clock had moved on: the vendor's
\* updated_at is later than the one it had
C24_Witness ==
    /\ EndedOp("update") /\ Succeeded
    /\ last.view[last.vid].updated_at > vendors[last.vid].updated_at
    /\ last.view[last.vid].updated_at > last.view[last.vid].created_at

\* a send_webhook_notification call ended
SendEnded == EndedOp("send")

\* what came of the ended call's post was no response of the 2xx class
DeliveryFailed ==
    \/ last.response.kind \in {"not sent", "ClientError", "TimeoutError"}
    \/ last.response.kind = "response" /\ last.response.status \notin 200..299

\* C25: send_webhook_notification never raises to its caller, whatever the
\* event type: when the post raised (before the request left, a transport
\* error, the timeout) or the endpoint answered outside the 2xx class, the
\* call returned false.
C25_SendNeverRaises ==
    SendEnded =>
        /\ last.result.kind = "return"
        /\ DeliveryFailed => last.result = ReturnedBool(FALSE)

\* a request that left a service with an endpoint ran into the timeout and
\* the call returned false
C25_Witness ==
    /\ SendEnded /\ last.response = TimedOut
    /\ Truthy(services[last.service].webhook_url)
    /\ last.result = ReturnedBool(FALSE)

\* the ended call's post was answered by the endpoint
GotResponse == SendEnded /\ last.response.kind = "response"

\* C26: with a webhook endpoint configured, send_webhook_notification returns
\* true exactly when the status of the response is of the 2xx class (200
\* through 299) and false for every other status.
C26_TrueExactlyOn2xx ==
    GotResponse =>
        /\ last.result.kind = "return"
        /\ last.result.flag <=> last.response.status \in 200..299

\* C27: a send_webhook_notification on a service without a webhook endpoint
\* (webhook_url None or empty) returns true at once, calls post on no session
\* and makes no session: the step leaves sessions, posts and the service as
\* they were.
C27_NoEndpointNoEffect ==
    [][ (last'.op = "send" /\ last'.pc = "done"
            /\ ~Truthy(services[last'.service].webhook_url)) =>
          /\ last'.result = ReturnedBool(TRUE)
          /\ last'.response.kind = "none"
          /\ UNCHANGED <<services, sessions, posts, req>> ]_vars

\* a send on a service without endpoint returned true while another service
\* had delivered through its session: no session belongs to the silent one
C27_Witness ==
    /\ SendEnded /\ last.result = ReturnedBool(TRUE)
    /\ ~Truthy(services[last.service].webhook_url)
    /\ services[last.service].webhook_session = 0
    /\ sessions # <<>>
    /\ \A i \in 1..Len(sessions) : sessions[i].owner # last.service
    /\ \A i \in 1..Len(posts) : posts[i].service # last.service

\* the sessions the service s made
SessionsOf(s) == {i \in 1..Len(sessions) : sessions[i].owner = s}

\* the post calls of the service s
PostsOf(s) == {i \in 1..Len(posts) : posts[i].service = s}

\* close() was called on the service s: nothing else closes a session
CloseCalled(s) == \E i \in SessionsOf(s) : sessions[i].closed

\* C28: an IntegrationService holds at most one outbound session at any
\* time, made by its first send with an endpoint; until close() is called
\* on it, it has made no second one and every send (sends that overlap and
\* sends after a failed delivery included) posted on that session.
C28_OneSessionReused ==
    \A s \in DOMAIN services :
        /\ (services[s].webhook_session # 0) =>
               services[s].webhook_session \in SessionsOf(s)
        /\ ~CloseCalled(s) =>
              /\ Cardinality(SessionsOf(s)) <= 1
              /\ (PostsOf(s) # {}) = (SessionsOf(s) # {})
              /\ \A i \in PostsOf(s) :
                    posts[i].session = services[s].webhook_session

\* after a delivery that failed, two sends of the same service overlap and
\* all three posted on the one session the service made
C28_Witness ==
    \E s \in DOMAIN services :
        /\ ~CloseCalled(s) /\ Cardinality(SessionsOf(s)) = 1
        /\ \E i, j, k \in PostsOf(s) :
              /\ i < j /\ j < k
              /\ posts[i].result = "false"
              /\ posts[j].result = "pending" /\ posts[k].result = "pending"
              /\ posts[i].session = posts[k].session

\* the post calls of the list ps that carried the event e
PostsOfEvent(ps, e) == {i \in 1..Len(ps) : ps[i].event_id = e}

\* C29: each call of send_webhook_notification issues at most one POST: no
\* step adds more than one post call, the step that ends a call whose
\* delivery failed adds none, and no event is ever posted a second time,
\* neither by its own call nor by a later one.
C29_AtMostOnePost ==
    [][ /\ Len(posts') <= Len(posts) + 1
        /\ Len(posts') >= Len(posts)
        /\ posts = [i \in 1..Len(posts) |->
                        [posts'[i] EXCEPT !.result = posts[i].result]]
        /\ \A i \in 1..Len(posts') : Cardinality(PostsOfEvent(posts', posts'[i].event_id)) = 1
        /\ (last'.op = "send" /\ last'.pc = "done" /\ last'.response.kind # "not sent") =>
              Len(posts') = Len(posts) ]_vars

\* the delivery of one event failed and a later call posted its own event;
\* the failed event was posted once
C29_Witness ==
    /\ Len(posts) >= 2
    /\ posts[1].result = "false" /\ Cardinality(PostsOfEvent(posts, posts[1].event_id)) = 1
    /\ SendEnded /\ last.event_id = 2 /\ last.response.kind = "response"

\* the sessions that were made and not closed
OpenSessions == {i \in 1..Len(sessions) : ~sessions[i].closed}

\* C30: once the shutdown of the application has completed, every outbound
\* session that was made is released: no session is open and no
\* IntegrationService holds one.
C30_ShutdownReleasesSessions ==
    app = "stopped" =>
        /\ OpenSessions = {}
        /\ \A s \in DOMAIN services : services[s].webhook_session = 0

\* a get_health_status call ended
HealthEnded == EndedOp("health")

\* C31: get_health_status never raises.  When the vendor lookup answers, it
\* reports "healthy" with total_vendors the number of stored vendors and
\* last_updated the greatest updated_at of them (None for an empty store);
\* when the lookup fails it reports "unhealthy".
C31_HealthNeverRaises ==
    HealthEnded =>
        /\ last.result.kind = "return"
        /\ last.broken => last.health.status = "unhealthy"
        /\ ~last.broken =>
              /\ last.health.status = "healthy"
              /\ last.health.has_total
              /\ last.health.total_vendors = Cardinality(DOMAIN vendors)
              /\ last.health.has_last = (vendors # <<>>)
              /\ last.health.has_last =>
                    /\ \E v \in DOMAIN vendors :
                          vendors[v].updated_at = last.health.last_updated
                    /\ \A v \in DOMAIN vendors :
                          vendors[v].updated_at <= last.health.last_updated

\* a healthy report over two vendors of which the one stored last was
\* written last
C31_Witness ==
    /\ HealthEnded /\ last.health.status = "healthy"
    /\ last.health.total_vendors = 2
    /\ vendors[2].updated_at > vendors[1].updated_at
    /\ last.health.last_updated = vendors[2].updated_at

\* the create_vendor requests that completed with a vendor, other than the
\* request that just ended
CreatedEarlier ==
    {q \in InFlight : /\ q.op = "create" /\ q.pc = "ended"
                      /\ q.result.kind = "return" /\ q.result.vid # 0
                      /\ [q EXCEPT !.pc = "done"] # last}

\* C32 (as claimed): a vendor created by a create_vendor request that
\* completed successfully is visible to the lookups of every later request
\* on another storage session: get_vendor_by_id of its id returns it, and a
\* later create_vendor with its tax_id is rejected as a duplicate.
C32_CreatedVisibleLater ==
    \A q \in CreatedEarlier :
        /\ (EndedOp("get") /\ last.vid = q.result.vid) =>
               last.result = Returned(q.result.vid)
        /\ (EndedOp("create") /\ last.data.tax_id = q.data.tax_id) =>
               last.result = DuplicateTaxId

\* the ended update supplied a tax_id, the empty text included, that is not
\* the one the vendor had
SuppliedOtherTaxId ==
    /\ "tax_id" \in last.upd.set /\ last.upd.val.tax_id # None
    /\ last.existing_tax # None /\ last.upd.val.tax_id # last.existing_tax

\* C33 (as claimed): an update_vendor that runs without concurrent writers
\* checks every supplied tax_id that differs from the vendor's own, the empty
\* text included, before it writes: it never reaches the uniqueness
\* constraint of the table and ends as not found (None), as the updated
\* vendor, or as the duplicate-tax-id failure.
C33_SequentialUpdateChecked ==
    UndisturbedUpdate =>
        /\ last.result \in {Returned(0), Returned(last.vid), DuplicateTaxId}
        /\ (SuppliedOtherTaxId
              /\ Cardinality(Holders(vendors, last.upd.val.tax_id) \ {last.vid}) > 0)
              => last.result = DuplicateTaxId

\* the tax_id of the row the import q is at
RowTax(q) == RowData(q.columns, q.rows[q.idx]).tax_id

\* the import q has looked its row up and found nothing, and another
\* request's create_vendor has stored a vendor with the row's tax_id before
\* the import calls create_vendor
Overtaken(q) ==
    /\ q.op = "import" /\ q.pc = "i_check"
    /\ \E o \in BagToSet(Others(q)) :
          /\ o.op = "create" /\ o.pc = "ended" /\ o.result.kind = "return"
          /\ o.data.tax_id = RowTax(q)

\* the import q after its overtaken row: one more error, for that row, no
\* more successes, and the loop at a later row or over with an ImportResult
AfterOvertaken(q, m) ==
    /\ m.op = "import" /\ m.doc = q.doc
    /\ m.idx > q.idx
    /\ Len(m.errors) >= Len(q.errors) + 1
    /\ SubSeq(m.errors, 1, Len(q.errors)) = q.errors
    /\ m.errors[Len(q.errors) + 1].raw_data = q.rows[q.idx]
    /\ \A k \in Len(q.errors) + 2..Len(m.errors) : m.errors[k].raw_data # q.rows[q.idx]
    /\ m.success_count = q.success_count
    /\ ~m.broken
    /\ \/ m.pc = "i_lookup" /\ m.idx <= Len(m.rows)
       \/ m.pc = "done" /\ m.result = Returned(0) /\ m.idx = Len(m.rows) + 1

\* C34 (as claimed): when another request has created a vendor with the
\* tax_id of an import's row after the row's own lookup and before its
\* create_vendor call, the import does not raise: the call records one error
\* for the row, leaves success_count as it was and goes on with the rows
\* that remain.
C34_OvertakenRowIsOneError ==
    [][\A q \in InFlight :
          (Overtaken(q) /\ ImportCheck(q)) =>
              \E m \in BagToSet(req') \cup {last'} : AfterOvertaken(q, m)]_vars

\* C35: every ImportResult has total_rows = success_count + error_count and
\* error_count = the number of its error records, each data row having
\* ended as one success or one error; and when the import met the write lock
\* of no other request, its table holds success_count vendors more than
\* before.
C35_ImportResultAddsUp ==
    ImportReturned =>
        LET r == ImportResult(last)
        IN  /\ r.total_rows = r.success_count + r.error_count
            /\ r.error_count = Len(r.errors)
            /\ r.total_rows = Len(ReadCsv(last.doc).rows)
            /\ last.clean =>
                  /\ DOMAIN vendors \subseteq DOMAIN last.view
                  /\ Cardinality(DOMAIN last.view) =
                        Cardinality(DOMAIN vendors) + r.success_count

\* an undisturbed import ended that created a vendor and recorded an error
C35_Witness ==
    /\ ImportReturned /\ last.clean
    /\ ImportResult(last).success_count >= 1
    /\ ImportResult(last).error_count >= 1
    /\ ImportResult(last).total_rows >= 2

\* the create_vendor and update_vendor requests that returned a vendor
\* whose updated_at is later than t
WrittenAfter(t) ==
    {q \in InFlight : /\ q.op \in {"create", "update"} /\ q.pc = "ended"
                      /\ q.result.kind = "return" /\ q.result.vid # 0
                      /\ q.view[q.result.vid].updated_at > t}

\* C36 (as claimed): once a create_vendor or update_vendor of the vendor v
\* has returned, at the storage time T, the get_vendor_changes_since(t) of a
\* later request lists v for every timestamp t earlier than T: a feed call
\* whose page has room for all changes reports v.
C36_WrittenVendorIsListed ==
    (FeedAnswered /\ last.page = 1 /\ last.page_size >= last.total) =>
        \A q \in WrittenAfter(last.since.at) : q.result.vid \in Reported

\* the items of the pages from..upto of the ended search, one after the
\* other: search_vendors_paged with the filters and page_size of the ended
\* call on the store as it is
RECURSIVE PagesJoined(_, _)
PagesJoined(from, upto) ==
    IF from > upto THEN <<>>
    ELSE SearchVendorsPaged(vendors, last.params, from, last.page_size).items
            \o PagesJoined(from + 1, upto)

\* pages looked at beyond total_pages
PagesBeyond == 3

\* C37: on a store that no request writes, with the filters and the
\* page_size of a search_vendors_paged call, the pages 1..total_pages joined
\* in page order are the matching vendors, each once, in ascending id order;
\* every page holds at most page_size items, every page beyond total_pages is
\* empty, and the page the call answered is the page of that number.
C37_PagesPartitionMatches ==
    (QuietSearch /\ last.result.kind = "return") =>
        LET page(p) == SearchVendorsPaged(vendors, last.params, p, last.page_size)
            matching == {v \in DOMAIN vendors : Matches(vendors[v], last.params)}
        IN  /\ PagesJoined(1, last.total_pages) = Ascending(matching)
            /\ \A p \in 1..(last.total_pages + PagesBeyond) :
                  /\ ~page(p).fails
                  /\ page(p).page_size = last.page_size
                  /\ page(p).total_pages = last.total_pages
                  /\ Len(page(p).items) <= last.page_size
                  /\ p > last.total_pages => page(p).items = <<>>
            /\ last.items = page(last.page).items

\* three vendors match, page_size is 2 and the search answered page 2 of 2
\* with the one vendor left over
C37_Witness ==
    /\ QuietSearch /\ last.result.kind = "return"
    /\ last.total = 3 /\ last.page_size = 2 /\ last.total_pages = 2
    /\ last.page = 2 /\ Len(last.items) = 1

====
